---------------------------- MODULE Spec2Model ----------------------------
(***************************************************************************)
(* Model of the Twitter/X video downloader service:                        *)
(*   src/main.py            the HTTP handlers, the format ranking, the     *)
(*                          in-memory video cache, URL validation          *)
(*   src/cookie_watcher.py  the cookie transform and the file watcher      *)
(*                                                                         *)
(* Conventions.                                                            *)
(*  - An optional field of a yt-dlp dictionary is a sequence of length at  *)
(*    most one: << >> is a missing key or the value None (the code reads   *)
(*    both through dict.get and "x or 0" / truthiness, which do not tell   *)
(*    them apart), <<v>> is the value v.                                   *)
(*  - A URL on which the code does character work (strip, re.sub,          *)
(*    re.match) is a sequence of one-character strings.                    *)
(*  - The metadata that extract_video_info only passes through (title,     *)
(*    uploader, counts, thumbnail, filename) is not part of the records.   *)
(***************************************************************************)
EXTENDS Integers, Sequences, FiniteSets, TLC

VARIABLES
    rk_pc,          \* ranking: "input" before the body has run, "done" after
    rk_formats,     \* ranking: info['formats'] handed back by yt-dlp
    rk_sorted,      \* ranking: mp4_formats after the sort
    rk_result,      \* ranking: what the extraction body returns or raises
    u_pc,           \* URL check: "input" before the two functions ran, "done" after
    u_raw,          \* URL check: the URL as received
    u_norm,         \* URL check: normalize_twitter_url(u_raw)
    u_ok,           \* URL check: is_valid_twitter_url(u_norm)
    cv_pc,          \* validity check: "input" before is_cache_valid ran, "done" after
    cv_entry,       \* validity check: the cache entry handed in
    cv_max_age,     \* validity check: the max_age handed in
    cv_result,      \* validity check: what is_cache_valid returned
    now,            \* time.time(), in seconds
    video_cache,    \* the global video_cache: cache key -> {data, timestamp}
    cookies_file,   \* whether cookies.txt exists
    pending,        \* POST /video/fetch requests received and not yet handled
    resp,           \* the response of the handler that ran in the last step
    cookies_txt,    \* cookies.txt as the cookie transform leaves it
    conv,           \* the last call of the cookie transform: input and return value
    directory,      \* watcher: the files of the watched directory, by path
    last_processed, \* watcher: CookieFileHandler.last_processed
    clock,          \* watcher: time.time(), in half seconds
    w_pc,           \* watcher: where the startup check or the handler stands
    seen,           \* watcher: what the last step of the watcher model was
    ex_pc,          \* extraction: "input" before extract_video_info ran, "done" after
    ex_first,       \* extraction: what yt-dlp does when asked without cookies
    ex_second,      \* extraction: what yt-dlp does when asked with the cookie file
    ex_cookies,     \* extraction: os.path.exists(COOKIES_FILE)
    ex_out,         \* extraction: what extract_video_info returned or raised, and its calls
    tw,             \* transform in steps: where convert_raw_cookies_to_netscape stands
    buffered,       \* transform in steps: text written to f and not yet on disk
    observed,       \* what the last reader of cookies.txt found in it
    events,         \* file events of the observer that are not yet delivered
    writer          \* the writer of raw_cookies.json: what it has done so far

rankVars == <<rk_pc, rk_formats, rk_sorted, rk_result>>

urlVars == <<u_pc, u_raw, u_norm, u_ok>>

validVars == <<cv_pc, cv_entry, cv_max_age, cv_result>>

serverVars == <<video_cache, cookies_file, pending, resp>>

cookieVars == <<cookies_txt, conv>>

watchVars == <<directory, last_processed, clock, w_pc, seen>>

extractVars == <<ex_pc, ex_first, ex_second, ex_cookies, ex_out>>

raceVars == <<tw, buffered, observed>>

dropVars == <<events, writer>>

extraVars == <<extractVars, raceVars, dropVars>>

vars == <<rankVars, urlVars, validVars, now, serverVars, cookieVars, watchVars, extraVars>>

(***************************************************************************)
(* Optional values.                                                        *)
(***************************************************************************)
None == << >>

Some(v) == <<v>>

\* Python's "x or 0" on an optional number.
OrZero(o) == IF o = None THEN 0 ELSE o[1]

\* Python truthiness of an optional number: None and 0 are falsy.
Truthy(o) == o # None /\ o[1] # 0

\* Python truthiness of an optional string: None and '' are falsy.
TruthyStr(o) == o # None /\ o[1] # ""

(***************************************************************************)
(* str(int) for the f-strings that label a quality.                        *)
(***************************************************************************)
Digit(d) ==
    CASE d = 0 -> "0" [] d = 1 -> "1" [] d = 2 -> "2" [] d = 3 -> "3"
      [] d = 4 -> "4" [] d = 5 -> "5" [] d = 6 -> "6" [] d = 7 -> "7"
      [] d = 8 -> "8" [] d = 9 -> "9"

RECURSIVE IntToStr(_)
IntToStr(n) == IF n < 10 THEN Digit(n) ELSE IntToStr(n \div 10) \o Digit(n % 10)

(***************************************************************************)
(* extract_video_info: the body that turns yt-dlp's info into a result.    *)
(***************************************************************************)
\* The filter of the loop over formats.
IsMp4VideoMutPresent(fmt) ==
    fmt.ext = Some("mp4") /\ fmt.vcodec # None /\ fmt.vcodec # Some("none")

IsMp4Video(fmt) == fmt.ext = Some("mp4") /\ fmt.vcodec # Some("none")

\* quality_info: the wrapper the loop builds around a kept format.
QualityInfo(fmt) ==
    [height |-> fmt.height, tbr |-> fmt.tbr, vbr |-> fmt.vbr, fps |-> fmt.fps,
     url |-> fmt.url, format |-> fmt]

Mp4Formats(formats) ==
    LET kept == SelectSeq(formats, IsMp4Video)
    IN  [i \in 1..Len(kept) |-> QualityInfo(kept[i])]

\* The sort key: (height or 0, tbr or 0, vbr or 0, fps or 0).
SortKeyMutHeightOnly(q) == <<OrZero(q.height), 0, 0, 0>>

SortKey(q) == <<OrZero(q.height), OrZero(q.tbr), OrZero(q.vbr), OrZero(q.fps)>>

\* Python's tuple comparison a < b on 4-tuples of numbers.
TupleLess(a, b) ==
    \E i \in 1..4 : a[i] < b[i] /\ \A j \in 1..(i - 1) : a[j] = b[j]

\* list.sort(key=..., reverse=True): a stable sort, descending; equal keys
\* keep the order they had.  Insert x behind every element that does not
\* rank below it.
RECURSIVE InsertDesc(_, _)
InsertDesc(x, s) ==
    IF s = << >> THEN <<x>>
    ELSE IF TupleLess(SortKey(Head(s)), SortKey(x)) THEN <<x>> \o s
         ELSE <<Head(s)>> \o InsertDesc(x, Tail(s))

RECURSIVE SortDesc(_)
SortDesc(s) ==
    IF s = << >> THEN << >>
    ELSE InsertDesc(s[Len(s)], SortDesc(SubSeq(s, 1, Len(s) - 1)))

\* One entry of all_mp4_qualities.
QualityEntry(q) ==
    [quality |-> IF Truthy(q.height) THEN IntToStr(q.height[1]) \o "p" ELSE "Unknown",
     bitrate |-> IF Truthy(q.tbr) THEN IntToStr(q.tbr[1]) \o "kbps" ELSE "Unknown",
     url     |-> q.url]

TOP_QUALITIES == 5

\* mp4_formats[:5] turned into all_mp4_qualities.
AllMp4QualitiesMutSkipBest(ranked) ==
    LET n == IF Len(ranked) - 1 < TOP_QUALITIES THEN Len(ranked) - 1 ELSE TOP_QUALITIES
    IN  [i \in 1..n |-> QualityEntry(ranked[i + 1])]

AllMp4Qualities(ranked) ==
    LET n == IF Len(ranked) < TOP_QUALITIES THEN Len(ranked) ELSE TOP_QUALITIES
    IN  [i \in 1..n |-> QualityEntry(ranked[i])]

Raise(msg) == [ok |-> FALSE, error |-> msg]

ProcessInfoMutFirstWithUrl(formats, used_cookies) ==
    IF formats = << >> THEN Raise("No video formats found")
    ELSE LET ranked == SortDesc(Mp4Formats(formats))
             playable == SelectSeq(ranked, LAMBDA q : TruthyStr(q.format.url))
         IN  IF ranked = << >> THEN Raise("No MP4 video formats available")
             ELSE IF playable = << >> THEN Raise("Could not extract download URL")
             ELSE LET best_format == playable[1].format
                  IN  [ok |-> TRUE,
                       download_url |-> best_format.url[1],
                       format |-> best_format.ext[1],
                       content_rating |-> IF used_cookies THEN "Adult (18+)"
                                          ELSE "General Audience",
                       is_adult |-> used_cookies,
                       available_qualities |-> AllMp4Qualities(ranked),
                       total_formats_found |-> Len(formats),
                       mp4_formats_found |-> Len(ranked)]

\* The body of one attempt, from "formats = info.get('formats', [])" to the
\* return; used_cookies tells which attempt runs it.
ProcessInfo(formats, used_cookies) ==
    IF formats = << >> THEN Raise("No video formats found")
    ELSE LET ranked == SortDesc(Mp4Formats(formats))
         IN  IF ranked = << >> THEN Raise("No MP4 video formats available")
             ELSE LET best_format == ranked[1].format
                  IN  IF ~TruthyStr(best_format.url)
                      THEN Raise("Could not extract download URL")
                      ELSE [ok |-> TRUE,
                            download_url |-> best_format.url[1],
                            format |-> best_format.ext[1],
                            content_rating |-> IF used_cookies THEN "Adult (18+)"
                                               ELSE "General Audience",
                            is_adult |-> used_cookies,
                            available_qualities |-> AllMp4Qualities(ranked),
                            total_formats_found |-> Len(formats),
                            mp4_formats_found |-> Len(ranked)]

(***************************************************************************)
(* normalize_twitter_url and is_valid_twitter_url, on sequences of          *)
(* characters.                                                             *)
(***************************************************************************)
L_http == <<"h","t","t","p">>
L_colon_slashes == <<":","/","/">>
L_twitter_com == <<"t","w","i","t","t","e","r",".","c","o","m">>
L_x_com == <<"x",".","c","o","m">>
L_status == <<"/","s","t","a","t","u","s","/">>

\* The characters str.strip() removes.
IsSpace(c) == c \in {" ", "\t", "\n", "\r"}

\* What '.' of a regular expression matches (no flags): all but a newline.
IsDotMutNoSlash(c) == c # "\n" /\ c # "/"

IsDot(c) == c # "\n"

\* What '\d' matches.
IsDigit(c) == c \in {"0", "1", "2", "3", "4", "5", "6", "7", "8", "9"}

\* lit occurs in s at position p.
LitAt(s, p, lit) ==
    /\ p + Len(lit) - 1 <= Len(s)
    /\ \A k \in 1..Len(lit) : s[p + k - 1] = lit[k]

RECURSIVE LStrip(_)
LStrip(s) == IF s # << >> /\ IsSpace(Head(s)) THEN LStrip(Tail(s)) ELSE s

RECURSIVE RStrip(_)
RStrip(s) ==
    IF s # << >> /\ IsSpace(s[Len(s)]) THEN RStrip(SubSeq(s, 1, Len(s) - 1)) ELSE s

Strip(s) == RStrip(LStrip(s))

\* re.sub(r'twitter\.com', 'x.com', s): every occurrence, left to right,
\* occurrences do not overlap.
RECURSIVE SubTwitter(_)
SubTwitter(s) ==
    IF s = << >> THEN << >>
    ELSE IF LitAt(s, 1, L_twitter_com)
         THEN L_x_com \o SubTwitter(SubSeq(s, Len(L_twitter_com) + 1, Len(s)))
         ELSE <<Head(s)>> \o SubTwitter(Tail(s))

normalize_twitter_url(url) == SubTwitter(Strip(url))

\* The regular expression, piece by piece: each operator maps the set of
\* positions the match can have reached to the set it can reach behind the
\* piece.
AfterLit(s, P, lit) == {p + Len(lit) : p \in {q \in P : LitAt(s, q, lit)}}

AfterOptional(s, P, c) == P \cup {p + 1 : p \in {q \in P : q <= Len(s) /\ s[q] = c}}

AfterPlus(s, P, Class(_)) ==
    {q \in 2..(Len(s) + 1) :
        \E p \in P : p < q /\ \A k \in p..(q - 1) : Class(s[k])}

\* re.match(r'https?://(twitter\.com|x\.com)/.+/status/\d+', url): the
\* pattern is anchored at the start of url only.
PatternEnds(url) ==
    LET p1 == AfterLit(url, {1}, L_http)
        p2 == AfterOptional(url, p1, "s")
        p3 == AfterLit(url, p2, L_colon_slashes)
        p4 == AfterLit(url, p3, L_twitter_com) \cup AfterLit(url, p3, L_x_com)
        p5 == AfterLit(url, p4, <<"/">>)
        p6 == AfterPlus(url, p5, IsDot)
        p7 == AfterLit(url, p6, L_status)
    IN  AfterPlus(url, p7, IsDigit)

is_valid_twitter_url(url) == PatternEnds(url) # {}

(***************************************************************************)
(* The ranking on its own: yt-dlp hands back a list of format descriptors  *)
(* and the body of extract_video_info runs on it.  The lists are every     *)
(* list of at most MaxDiverse descriptors of FormatPool, and every list of *)
(* at most MaxFormats descriptors of CommonPool (long enough for the cut   *)
(* to the top 5 to drop something).                                        *)
(***************************************************************************)
MaxFormats == 6

MaxDiverse == 4

Fmt(ext, vcodec, height, tbr, vbr, fps, url) ==
    [ext |-> ext, vcodec |-> vcodec, height |-> height, tbr |-> tbr,
     vbr |-> vbr, fps |-> fps, url |-> url]

\* 1080p, every field known.
FmtA == Fmt(Some("mp4"), Some("avc1"), Some(1080), Some(2000), Some(1500), Some(30), Some("a"))
\* As FmtA but for the frame rate; yt-dlp does not know the codec.
FmtB == Fmt(Some("mp4"), None, Some(1080), Some(2000), Some(1500), Some(60), Some("b"))
\* As FmtB but the video bitrate is unknown, and it has no URL to play.
FmtC == Fmt(Some("mp4"), Some("avc1"), Some(1080), Some(2000), None, Some(60), Some(""))
\* Height unknown, the highest bitrate of the mp4 entries.
FmtD == Fmt(Some("mp4"), Some("avc1"), None, Some(5000), None, None, Some("d"))
\* Audio only.
FmtE == Fmt(Some("mp4"), Some("none"), Some(2160), Some(128), None, None, Some("e"))
\* Another container.
FmtF == Fmt(Some("webm"), Some("vp9"), Some(2160), Some(9000), Some(9000), Some(60), Some("f"))
\* 1080p with a higher total bitrate than FmtA, and a height of 0 variant.
FmtG == Fmt(Some("mp4"), Some("avc1"), Some(1080), Some(2500), None, None, None)
FmtH == Fmt(Some("mp4"), Some("avc1"), Some(0), Some(800), Some(700), Some(30), Some("h"))
FmtI == Fmt(Some("mp4"), Some("avc1"), Some(720), Some(9000), Some(8000), Some(60), Some("i"))

FormatPool == {FmtA, FmtB, FmtC, FmtD, FmtE, FmtF, FmtG, FmtH, FmtI}

CommonPool == {FmtA, FmtB, FmtD, FmtE}

FormatLists ==
    UNION {[1..n -> FormatPool] : n \in 0..MaxDiverse}
      \cup UNION {[1..n -> CommonPool] : n \in 0..MaxFormats}

NoResult == Raise("not run")

RankStart ==
    /\ rk_pc = "input"
    /\ rk_formats \in FormatLists
    /\ rk_sorted = << >>
    /\ rk_result = NoResult

RankIdle ==
    /\ rk_pc = "idle"
    /\ rk_formats = << >>
    /\ rk_sorted = << >>
    /\ rk_result = NoResult

RunRanking ==
    /\ rk_pc = "input"
    /\ rk_pc' = "done"
    /\ rk_sorted' = SortDesc(Mp4Formats(rk_formats))
    /\ rk_result' = ProcessInfo(rk_formats, FALSE)
    /\ UNCHANGED <<rk_formats, urlVars, validVars, now, serverVars, cookieVars, watchVars, extraVars>>


(***************************************************************************)
(* The URL check on its own: a URL put together from a leading blank, a    *)
(* scheme, a host, a path and a trailing blank goes through                *)
(* normalize_twitter_url and then is_valid_twitter_url.                    *)
(***************************************************************************)
U_https == <<"h","t","t","p","s",":","/","/">>
U_http == <<"h","t","t","p",":","/","/">>
U_ftp == <<"f","t","p",":","/","/">>
U_httpx == <<"h","t","t","p","x",":","/","/">>
H_example == <<"e","x","a","m","p","l","e",".","c","o","m">>
H_mobile == <<"m","o","b","i","l","e",".","t","w","i","t","t","e","r",".","c","o","m">>
H_x_evil == <<"x",".","c","o","m",".","e","v","i","l",".","o","r","g">>
P_alice == <<"/","a","l","i","c","e","/","s","t","a","t","u","s","/","1","2","3","4","5">>
P_bob == <<"/","b","o","b","/","s","t","a","t","u","s","/","1">>
P_nouser == <<"/","s","t","a","t","u","s","/","1","2","3">>
P_nodigits == <<"/","a","l","i","c","e","/","s","t","a","t","u","s","/">>
P_letters == <<"/","a","l","i","c","e","/","s","t","a","t","u","s","/","a","b","c">>
P_digit_then_letter == <<"/","a","l","i","c","e","/","s","t","a","t","u","s","/","1","2","a">>
P_photo == <<"/","a","l","i","c","e","/","s","t","a","t","u","s","/","1","/","p","h","o","t","o","/","1">>
P_query == <<"/","a","l","i","c","e","/","s","t","a","t","u","s","/","1","?","s","=","2","0">>
P_deep == <<"/","a","/","b","/","s","t","a","t","u","s","/","1">>
P_emptyuser == <<"/","/","s","t","a","t","u","s","/","1">>
P_statuses == <<"/","a","l","i","c","e","/","s","t","a","t","u","s","e","s","/","1">>
P_twitter_user == <<"/","t","w","i","t","t","e","r",".","c","o","m","/","s","t","a","t","u","s","/","1">>
P_newline == <<"/","a","l","i","\n","c","e","/","s","t","a","t","u","s","/","1">>
P_nouser_twice == <<"/","s","t","a","t","u","s","/","1","2","3","/","s","t","a","t","u","s","/","4">>
P_root == <<"/">>

UrlLeads == {<< >>, <<" ">>}
UrlSchemes == {U_https, U_http, U_ftp, U_httpx, << >>}
UrlHosts == {L_twitter_com, L_x_com, H_example, H_mobile, H_x_evil}
UrlPaths == {P_alice, P_bob, P_nouser, P_nodigits, P_letters, P_digit_then_letter,
             P_photo, P_query, P_deep, P_emptyuser, P_statuses, P_twitter_user,
             P_newline, P_nouser_twice, P_root}
UrlTrails == {<< >>, <<" ", "\n">>}

UrlInputs ==
    {l \o sc \o h \o p \o t :
        l \in UrlLeads, sc \in UrlSchemes, h \in UrlHosts, p \in UrlPaths, t \in UrlTrails}

UrlStart ==
    /\ u_pc = "input"
    /\ u_raw \in UrlInputs
    /\ u_norm = << >>
    /\ u_ok = FALSE

UrlIdle ==
    /\ u_pc = "idle"
    /\ u_raw = << >>
    /\ u_norm = << >>
    /\ u_ok = FALSE

\* normalized_url = normalize_twitter_url(url); is_valid_twitter_url(normalized_url)
CheckUrl ==
    /\ u_pc = "input"
    /\ u_pc' = "done"
    /\ u_norm' = normalize_twitter_url(u_raw)
    /\ u_ok' = is_valid_twitter_url(normalize_twitter_url(u_raw))
    /\ UNCHANGED <<u_raw, rankVars, validVars, now, serverVars, cookieVars, watchVars, extraVars>>

(***************************************************************************)
(* The cache functions.                                                    *)
(***************************************************************************)
\* hashlib.md5(url.encode()).hexdigest(): a function of the URL; two URLs
\* of the model never collide.
get_cache_key(url) == <<"md5", url>>

DEFAULT_MAX_AGE == 3600

\* time.time() - cache_entry['timestamp'] < max_age, t being time.time().
is_cache_validMutInclusive(cache_entry, max_age, t) ==
    t - cache_entry.timestamp <= max_age

is_cache_valid(cache_entry, max_age, t) == t - cache_entry.timestamp < max_age

(***************************************************************************)
(* is_cache_valid on its own.                                              *)
(***************************************************************************)
MaxStamp == 3

MaxAges == {1, 2, 60, DEFAULT_MAX_AGE}

ValidStart ==
    /\ cv_pc = "input"
    /\ cv_entry \in [timestamp : 1..MaxStamp]
    /\ cv_max_age \in MaxAges
    /\ \E d \in {-1, 0, 1, cv_max_age - 1, cv_max_age, cv_max_age + 1, cv_max_age + cv_max_age} :
           now = cv_entry.timestamp + d
    /\ cv_result = FALSE

ValidIdle ==
    /\ cv_pc = "idle"
    /\ cv_entry = [timestamp |-> 0]
    /\ cv_max_age = DEFAULT_MAX_AGE
    /\ cv_result = FALSE

CheckValid ==
    /\ cv_pc = "input"
    /\ cv_pc' = "done"
    /\ cv_result' = is_cache_valid(cv_entry, cv_max_age, now)
    /\ UNCHANGED <<cv_entry, cv_max_age, now, rankVars, urlVars, serverVars, cookieVars, watchVars, extraVars>>

(***************************************************************************)
(* The error texts.  The code looks into an error text with "probe in      *)
(* text"; Probes(text) lists, for each text of the model, the probes of    *)
(* the code that occur in it.                                              *)
(***************************************************************************)
ERR_403 == "HTTP Error 403: Forbidden"
ERR_404 == "HTTP Error 404: Not Found"
ERR_INVALID_URL ==
    "400: Please provide a valid Twitter/X URL (e.g., https://twitter.com/user/status/123...)"

ERR_401 == "HTTP Error 401: Unauthorized"
ERR_429 == "HTTP Error 429: Too Many Requests"
ERR_NSFW == "NSFW tweet requires authentication"
ERR_403_NOT_FOUND == "HTTP Error 403: Forbidden (Not Found)"
ERR_401_TOO_MANY == "HTTP Error 401: Unauthorized (Too Many Requests)"
ERR_NETWORK == "Network is unreachable"
ERR_OTHER == "Something went wrong"

\* "network" and "connection" are looked for in error_msg.lower().
Probes(text) ==
    CASE text = ERR_403 -> {"403", "Forbidden", "HTTP Error 403"}
      [] text = ERR_404 -> {"HTTP Error 404", "Not Found"}
      [] text = "Could not extract download URL" -> {"Could not extract"}
      [] text = ERR_401 -> {"401", "HTTP Error 401", "Unauthorized"}
      [] text = ERR_429 -> {"HTTP Error 429", "Too Many Requests"}
      [] text = ERR_NSFW -> {"NSFW", "authentication", "requires authentication"}
      [] text = ERR_403_NOT_FOUND -> {"403", "Forbidden", "HTTP Error 403", "Not Found"}
      [] text = ERR_401_TOO_MANY ->
             {"401", "HTTP Error 401", "Too Many Requests", "Unauthorized"}
      [] text = ERR_NETWORK -> {"network"}
      [] OTHER -> {}

Contains(text, probe) == probe \in Probes(text)

AUTH_KEYWORDS ==
    {"403", "401", "Forbidden", "Unauthorized", "private", "protected", "NSFW",
     "authentication", "requires authentication"}

\* The except clause of fetch_video_data: the message sent for an error text.
ErrorDetailMutForbiddenFirst(error_msg) ==
    IF Contains(error_msg, "HTTP Error 403") \/ Contains(error_msg, "Forbidden")
    THEN "Access forbidden. Cannot access private accounts or restricted content. Try uploading cookies."
    ELSE IF Contains(error_msg, "HTTP Error 404") \/ Contains(error_msg, "Not Found")
    THEN "Tweet not found. The tweet may have been deleted, the account is private, or the tweet doesn't contain a video."
    ELSE IF Contains(error_msg, "HTTP Error 429") \/ Contains(error_msg, "Too Many Requests")
    THEN "Rate limit exceeded. Please wait a few minutes before trying again."
    ELSE IF Contains(error_msg, "HTTP Error 401") \/ Contains(error_msg, "Unauthorized")
    THEN "Unauthorized access. Upload cookies to access private/restricted content."
    ELSE IF Contains(error_msg, "Unable to extract") \/ Contains(error_msg, "Could not extract")
    THEN "Unable to extract video. The tweet might not contain a video or might be restricted."
    ELSE IF Contains(error_msg, "network") \/ Contains(error_msg, "connection")
    THEN "Network connection error. Please check your internet connection and try again."
    ELSE error_msg

ErrorDetail(error_msg) ==
    IF Contains(error_msg, "HTTP Error 404") \/ Contains(error_msg, "Not Found")
    THEN "Tweet not found. The tweet may have been deleted, the account is private, or the tweet doesn't contain a video."
    ELSE IF Contains(error_msg, "HTTP Error 403") \/ Contains(error_msg, "Forbidden")
    THEN "Access forbidden. Cannot access private accounts or restricted content. Try uploading cookies."
    ELSE IF Contains(error_msg, "HTTP Error 429") \/ Contains(error_msg, "Too Many Requests")
    THEN "Rate limit exceeded. Please wait a few minutes before trying again."
    ELSE IF Contains(error_msg, "HTTP Error 401") \/ Contains(error_msg, "Unauthorized")
    THEN "Unauthorized access. Upload cookies to access private/restricted content."
    ELSE IF Contains(error_msg, "Unsupported URL")
    THEN "This Twitter/X URL is not supported. Please make sure the tweet contains a video."
    ELSE IF Contains(error_msg, "Video unavailable")
    THEN "Video is unavailable. It might be private, deleted, or from a protected account."
    ELSE IF Contains(error_msg, "Unable to extract") \/ Contains(error_msg, "Could not extract")
    THEN "Unable to extract video. The tweet might not contain a video or might be restricted."
    ELSE IF Contains(error_msg, "network") \/ Contains(error_msg, "connection")
    THEN "Network connection error. Please check your internet connection and try again."
    ELSE error_msg

(***************************************************************************)
(* extract_video_info: the two attempts.  An answer is what                *)
(* ydl.extract_info does in one attempt: it raises an error, returns       *)
(* nothing, or returns an info dictionary with a list of formats.          *)
(***************************************************************************)
AnswerError(text) == [kind |-> "error", text |-> text, formats |-> << >>]

AnswerNone == [kind |-> "none", text |-> "", formats |-> << >>]

AnswerInfo(formats) == [kind |-> "info", text |-> "", formats |-> formats]

URL_LIFETIME == 21600

\* One attempt: the with-block of the attempt on yt-dlp's answer; t is
\* time.time().
AttemptMutGeneralRating(answer, used_cookies, t) ==
    IF answer.kind = "error" THEN Raise(answer.text)
    ELSE IF answer.kind = "none" THEN Raise("No video information could be extracted")
    ELSE LET r == ProcessInfo(answer.formats, FALSE)
         IN  IF r.ok THEN [ok |-> TRUE, data |-> r, expires_at |-> t + URL_LIFETIME]
             ELSE r

Attempt(answer, used_cookies, t) ==
    IF answer.kind = "error" THEN Raise(answer.text)
    ELSE IF answer.kind = "none" THEN Raise("No video information could be extracted")
    ELSE LET r == ProcessInfo(answer.formats, used_cookies)
         IN  IF r.ok THEN [ok |-> TRUE, data |-> r, expires_at |-> t + URL_LIFETIME]
             ELSE r

\* What extract_video_info returns or raises, with the attempts it made:
\* first is yt-dlp's answer without cookies, second its answer with the
\* cookie file.
extract_video_infoMutNoExistsTest(first, second, cookies_exist, t) ==
    LET r1 == Attempt(first, FALSE, t)
        one == <<[cookies |-> FALSE, answer |-> first]>>
    IN  IF r1.ok THEN [result |-> r1, asked |-> one]
        ELSE IF \E keyword \in AUTH_KEYWORDS : Contains(r1.error, keyword)
             THEN [result |-> Attempt(second, TRUE, t),
                   asked |-> one \o <<[cookies |-> TRUE, answer |-> second]>>]
             ELSE [result |-> r1, asked |-> one]

extract_video_infoMutRetryAgain(first, second, cookies_exist, t) ==
    LET r1 == Attempt(first, FALSE, t)
        r2 == Attempt(second, TRUE, t)
        one == <<[cookies |-> FALSE, answer |-> first]>>
        two == one \o <<[cookies |-> TRUE, answer |-> second]>>
    IN  IF r1.ok THEN [result |-> r1, asked |-> one]
        ELSE IF (\E keyword \in AUTH_KEYWORDS : Contains(r1.error, keyword)) /\ cookies_exist
             THEN IF r2.ok THEN [result |-> r2, asked |-> two]
                  ELSE [result |-> Attempt(second, TRUE, t),
                        asked |-> two \o <<[cookies |-> TRUE, answer |-> second]>>]
             ELSE [result |-> r1, asked |-> one]

extract_video_info(first, second, cookies_exist, t) ==
    LET r1 == Attempt(first, FALSE, t)
        one == <<[cookies |-> FALSE, answer |-> first]>>
    IN  IF r1.ok THEN [result |-> r1, asked |-> one]
        ELSE IF (\E keyword \in AUTH_KEYWORDS : Contains(r1.error, keyword)) /\ cookies_exist
             THEN [result |-> Attempt(second, TRUE, t),
                   asked |-> one \o <<[cookies |-> TRUE, answer |-> second]>>]
             ELSE [result |-> r1, asked |-> one]

(***************************************************************************)
(* The HTTP handlers.  Each is an async function without an await: once    *)
(* the event loop starts it, it runs to its end before any other handler   *)
(* runs.                                                                   *)
(***************************************************************************)
\* The URLs of the requests: the twitter.com and the x.com form of one
\* post, and a URL that fails validation.
ReqTwitter == U_https \o L_twitter_com \o P_bob
ReqX == U_https \o L_x_com \o P_bob
ReqBad == U_https \o L_x_com \o P_nouser

RequestUrls == {ReqTwitter, ReqX, ReqBad}

\* normalize_twitter_url and is_valid_twitter_url, tabulated over the
\* request URLs.
NormalizedRequest == [u \in RequestUrls |-> normalize_twitter_url(u)]

ValidNormalizedMutAcceptAll ==
    [n \in {NormalizedRequest[u] : u \in RequestUrls} |-> TRUE]

ValidNormalized ==
    [n \in {NormalizedRequest[u] : u \in RequestUrls} |-> is_valid_twitter_url(n)]

\* What yt-dlp answers in the model.
GoodFormats == <<FmtE, FmtA, FmtB>>

Answers ==
    {AnswerInfo(GoodFormats), AnswerInfo(<<FmtF, FmtE>>), AnswerInfo(<<FmtE>>),
     AnswerError(ERR_403), AnswerError(ERR_404)}

\* A request as the server sees it: raced records that it waited together
\* with another request for the same URL while the cache had no entry for
\* that URL.
Request(id, url, raced) == [id |-> id, url |-> url, raced |-> raced]

NoRequest == Request(0, << >>, FALSE)

NoResponse ==
    [op |-> "none", request |-> NoRequest, status |-> 0, detail |-> "",
     data |-> None, asked |-> << >>]

\* What an operation answered: asked lists the calls it made to yt-dlp.
Response(op, request, status, detail, data, asked) ==
    [op |-> op, request |-> request, status |-> status, detail |-> detail,
     data |-> data, asked |-> asked]

\* The cache key fetch_video_data looks up and stores under.
FetchKey(url) == get_cache_key(url)

\* The lookup of fetch_video_data.
CacheHitMutNoExpiry(key) == key \in DOMAIN video_cache

CacheHit(key) ==
    key \in DOMAIN video_cache /\ is_cache_valid(video_cache[key], DEFAULT_MAX_AGE, now)

\* The cache after fetch_video_data looked up key and found no valid entry.
AfterMissMutPurge(key) == [k \in DOMAIN video_cache \ {key} |-> video_cache[k]]

AfterMiss(key) == video_cache

\* video_cache[cache_key] = {'data': video_data, 'timestamp': time.time()}
StoreMutKeepFirst(cache, key, video_data, t) ==
    [k \in DOMAIN cache \cup {key} |->
        IF k \in DOMAIN cache THEN cache[k] ELSE [data |-> video_data, timestamp |-> t]]

Store(cache, key, video_data, t) ==
    [k \in DOMAIN cache \cup {key} |->
        IF k = key THEN [data |-> video_data, timestamp |-> t] ELSE cache[k]]

\* The cache after an extraction that failed.
AfterFailureMutStore(cache, key, t) == Store(cache, key, Raise("failed"), t)

AfterFailure(cache, key, t) == cache

\* POST /video/fetch with request.url in the body.  When the handler asks
\* yt-dlp, yt-dlp answers with any of Answers.
fetch_video_data(request) ==
    LET url == request.url
        normalized_url == NormalizedRequest[url]
        cache_key == FetchKey(url)
    IN  IF ~ValidNormalized[normalized_url]
        THEN /\ resp' = Response("fetch", request, 500, ErrorDetail(ERR_INVALID_URL), None, << >>)
             /\ UNCHANGED video_cache
        ELSE IF CacheHit(cache_key)
        THEN /\ resp' = Response("fetch", request, 200, "",
                                 Some(video_cache[cache_key].data), << >>)
             /\ UNCHANGED video_cache
        ELSE \E x \in {extract_video_info(first, second, cookies_file, now) :
                            first \in Answers, second \in Answers} :
                 IF x.result.ok
                 THEN /\ video_cache' = Store(AfterMiss(cache_key), cache_key, x.result, now)
                      /\ resp' = Response("fetch", request, 200, "", Some(x.result), x.asked)
                 ELSE /\ video_cache' = AfterFailure(AfterMiss(cache_key), cache_key, now)
                      /\ resp' = Response("fetch", request, 500,
                                          ErrorDetail(x.result.error), None, x.asked)

\* POST /cache/clear
clear_cache ==
    /\ video_cache' = << >>
    /\ resp' = Response("clear_cache", NoRequest, 200, "", None, << >>)
    /\ UNCHANGED <<cookies_file, pending, now, rankVars, urlVars, validVars, cookieVars, watchVars, extraVars>>

\* DELETE /auth/cookies
clear_cookies ==
    /\ cookies_file' = FALSE
    /\ resp' = Response("clear_cookies", NoRequest, 200, "", None, << >>)
    /\ UNCHANGED <<video_cache, pending, now, rankVars, urlVars, validVars, cookieVars, watchVars, extraVars>>

\* The except clause of test_endpoint: the error text it reports.
TestDetail(error_msg) ==
    IF Contains(error_msg, "HTTP Error 404") \/ Contains(error_msg, "Not Found")
    THEN "Tweet not found or deleted"
    ELSE IF Contains(error_msg, "HTTP Error 403") \/ Contains(error_msg, "Forbidden")
    THEN "Access forbidden - need authentication cookies"
    ELSE IF Contains(error_msg, "HTTP Error 401") \/ Contains(error_msg, "Unauthorized")
    THEN "Unauthorized - upload cookies for private content"
    ELSE IF Contains(error_msg, "Unable to extract") \/ Contains(error_msg, "Could not extract")
    THEN "Could not extract video from this URL"
    ELSE error_msg

\* GET /test?url=...: every outcome is an HTTP 200, an error is a field of
\* the body.  The handler does not use video_cache.
test_endpoint ==
    \E url \in RequestUrls :
        LET normalized_url == NormalizedRequest[url]
            request == Request(0, url, FALSE)
        IN  /\ IF ~ValidNormalized[normalized_url]
               THEN resp' = Response("test", request, 200, "Invalid Twitter/X URL", None, << >>)
               ELSE \E x \in {extract_video_info(first, second, cookies_file, now) :
                                   first \in Answers, second \in Answers} :
                        IF x.result.ok
                        THEN resp' = Response("test", request, 200, "", Some(x.result), x.asked)
                        ELSE resp' = Response("test", request, 200,
                                              TestDetail(x.result.error), None, x.asked)
            /\ UNCHANGED <<video_cache, cookies_file, pending, now, rankVars, urlVars, validVars, cookieVars, watchVars, extraVars>>

\* The bodies of POST /auth/cookies in the model: no cookie, one cookie.
UploadLists == {<< >>, <<"cookie">>}

UploadRequest(cookies) == [id |-> 0, url |-> << >>, raced |-> FALSE, cookies |-> cookies]

\* What the caller of upload_cookies receives for an HTTPException raised
\* inside its try block: the except clause catches it and raises a new one.
UploadError(status_code, detail) ==
    [status |-> 500,
     detail |-> "Error uploading cookies: " \o IntToStr(status_code) \o ": " \o detail]

\* POST /auth/cookies; saved is what save_cookies_from_json returns.
upload_cookies ==
    \E cookies \in UploadLists : \E saved \in BOOLEAN :
        LET request == UploadRequest(cookies)
        IN  /\ IF cookies = << >>
               THEN LET err == UploadError(400, "No cookies provided")
                    IN  /\ resp' = Response("upload_cookies", request, err.status, err.detail, None, << >>)
                        /\ UNCHANGED cookies_file
               ELSE IF saved
               THEN /\ resp' = Response("upload_cookies", request, 200, "", None, << >>)
                    /\ cookies_file' = TRUE
               ELSE LET err == UploadError(500, "Failed to save cookies")
                    IN  /\ resp' = Response("upload_cookies", request, err.status, err.detail, None, << >>)
                        /\ UNCHANGED cookies_file
            /\ UNCHANGED <<video_cache, pending, now, rankVars, urlVars, validVars, cookieVars, watchVars, extraVars>>

\* A cookie file is stored by POST /cookies/add-raw or by the watcher.
StoreCookies ==
    /\ cookies_file' = TRUE
    /\ resp' = Response("store_cookies", NoRequest, 200, "", None, << >>)
    /\ UNCHANGED <<video_cache, pending, now, rankVars, urlVars, validVars, cookieVars, watchVars, extraVars>>

(***************************************************************************)
(* The server: requests arrive, wait for the event loop and are handled    *)
(* one at a time; the clock moves between the steps.                       *)
(***************************************************************************)
MaxInFlight == 2

RequestIds == 1..MaxInFlight

\* The instants at which something happens.
ClockValues == {0, DEFAULT_MAX_AGE - 1, DEFAULT_MAX_AGE, DEFAULT_MAX_AGE + 1}

ServerStart ==
    /\ video_cache = << >>
    /\ cookies_file = FALSE
    /\ pending = << >>
    /\ resp = NoResponse

ServerIdle == ServerStart

\* Time passes.
Tick ==
    /\ \E t \in ClockValues : t > now /\ now' = t
    /\ resp' = NoResponse
    /\ UNCHANGED <<video_cache, cookies_file, pending, rankVars, urlVars, validVars, cookieVars, watchVars, extraVars>>

\* A POST /video/fetch arrives and waits for the event loop; it gets the
\* smallest request id that is free.
Arrive ==
    \E id \in RequestIds \ DOMAIN pending : \E url \in RequestUrls :
        LET race == /\ FetchKey(url) \notin DOMAIN video_cache
                    /\ \E o \in DOMAIN pending : pending[o].url = url
        IN  /\ \A free \in RequestIds \ DOMAIN pending : id <= free
            /\ pending' = [i \in DOMAIN pending \cup {id} |->
                              IF i = id THEN Request(id, url, race)
                              ELSE IF pending[i].url = url
                                   THEN [pending[i] EXCEPT !.raced = @ \/ race]
                                   ELSE pending[i]]
            /\ resp' = NoResponse
            /\ UNCHANGED <<video_cache, cookies_file, now, rankVars, urlVars, validVars, cookieVars, watchVars, extraVars>>

\* The event loop runs the handler of a waiting request.
Handle ==
    \E id \in DOMAIN pending :
        /\ fetch_video_data(pending[id])
        /\ pending' = [i \in DOMAIN pending \ {id} |-> pending[i]]
        /\ UNCHANGED <<cookies_file, now, rankVars, urlVars, validVars, cookieVars, watchVars, extraVars>>

\* A POST /video/fetch is received and handled with no other request
\* waiting.
Fetch ==
    \E url \in RequestUrls :
        /\ fetch_video_data(Request(0, url, FALSE))
        /\ UNCHANGED <<pending, cookies_file, now, rankVars, urlVars, validVars, cookieVars, watchVars, extraVars>>

(***************************************************************************)
(* src/cookie_watcher.py: convert_raw_cookies_to_netscape.                 *)
(*                                                                         *)
(* A value of the JSON input is a record: t is its type, s its text when   *)
(* it is a string, n its number.  "absent" is a key the record does not    *)
(* have, "null" the JSON null; dict.get(key, default) tells them apart.    *)
(* "half" is the number n + 0.5, "inf" a number too large for a float      *)
(* (1e999), which json.load reads as infinity.                             *)
(* A text (a string of the input, the content of cookies.txt) is a         *)
(* sequence of pieces: a tab and a line feed are always a piece of their   *)
(* own, the characters of a domain are one piece each.                     *)
(***************************************************************************)
JValue(t, s, n) == [t |-> t, s |-> s, n |-> n]

Absent == JValue("absent", << >>, 0)
JNull == JValue("null", << >>, 0)
JStr(s) == JValue("str", s, 0)
JNum(n) == JValue("num", << >>, n)
JHalf(n) == JValue("half", << >>, n)
JInf == JValue("inf", << >>, 0)
JBool(b) == JValue("bool", << >>, IF b THEN 1 ELSE 0)

\* cookie.get(key, default)
Get(v, default) == IF v.t = "absent" THEN default ELSE v

\* Python truthiness of a JSON value.
PyTruthy(v) ==
    CASE v.t = "null" -> FALSE
      [] v.t = "str" -> v.s # << >>
      [] v.t = "num" -> v.n # 0
      [] v.t = "bool" -> v.n = 1
      [] OTHER -> TRUE

\* str(int) for an integer of either sign.
SignedToStr(n) == IF n < 0 THEN "-" \o IntToStr(0 - n) ELSE IntToStr(n)

\* How an f-string writes a JSON value.
Format(v) ==
    CASE v.t = "str" -> v.s
      [] v.t = "null" -> <<"None">>
      [] v.t = "num" -> <<SignedToStr(v.n)>>
      [] v.t = "bool" -> <<IF v.n = 1 THEN "True" ELSE "False">>
      [] v.t = "half" -> <<SignedToStr(v.n) \o ".5">>
      [] v.t = "inf" -> <<"inf">>

DigitValue(c) ==
    CASE c = "0" -> 0 [] c = "1" -> 1 [] c = "2" -> 2 [] c = "3" -> 3
      [] c = "4" -> 4 [] c = "5" -> 5 [] c = "6" -> 6 [] c = "7" -> 7
      [] c = "8" -> 8 [] c = "9" -> 9

IsDigits(s) == s # << >> /\ \A i \in 1..Len(s) : IsDigit(s[i])

RECURSIVE DigitsValue(_)
DigitsValue(s) ==
    IF s = << >> THEN 0
    ELSE 10 * DigitsValue(SubSeq(s, 1, Len(s) - 1)) + DigitValue(s[Len(s)])

Returns(n) == [raises |-> "", n |-> n]

Raises(exception) == [raises |-> exception, n |-> 0]

\* int(float(s)) for a string: digits, digits.digits, inf, nan; any other
\* text of the model is not a number.
IntOfFloatStr(s) ==
    IF IsDigits(s) THEN Returns(DigitsValue(s))
    ELSE IF \E p \in 2..(Len(s) - 1) :
               /\ s[p] = "."
               /\ IsDigits(SubSeq(s, 1, p - 1))
               /\ IsDigits(SubSeq(s, p + 1, Len(s)))
    THEN LET p == CHOOSE q \in 2..(Len(s) - 1) : s[q] = "."
         IN  Returns(DigitsValue(SubSeq(s, 1, p - 1)))
    ELSE IF s = <<"i", "n", "f">> THEN Raises("OverflowError")
    ELSE Raises("ValueError")

\* int(float(v)): float() of a number or a string, int() truncates.
IntOfFloat(v) ==
    CASE v.t = "num" -> Returns(v.n)
      [] v.t = "half" -> Returns(v.n)
      [] v.t = "bool" -> Returns(v.n)
      [] v.t = "inf" -> Raises("OverflowError")
      [] v.t = "str" -> IntOfFloatStr(v.s)
      [] OTHER -> Raises("TypeError")

\* The expiry field: expiration_raw, then the try block around
\* str(int(float(expiration_raw))).  An exception other than ValueError and
\* TypeError leaves the try block.
ExpirationRaw(cookie) == Get(cookie.expirationDate, Get(cookie.expires, JNum(0)))

Expiration(cookie) ==
    LET expiration_raw == ExpirationRaw(cookie)
    IN  IF ~PyTruthy(expiration_raw) THEN [raises |-> "", text |-> "0"]
        ELSE LET r == IntOfFloat(expiration_raw)
             IN  IF r.raises = "" THEN [raises |-> "", text |-> SignedToStr(r.n)]
                 ELSE IF r.raises \in {"ValueError", "TypeError"}
                 THEN [raises |-> "", text |-> "0"]
                 ELSE [raises |-> r.raises, text |-> ""]

\* 'x.com' in domain
HasXCom(domain) == \E p \in 1..Len(domain) : LitAt(domain, p, L_x_com)

\* domain.replace('x.com', 'twitter.com'): every occurrence, left to right.
RECURSIVE ReplaceXCom(_)
ReplaceXCom(s) ==
    IF s = << >> THEN << >>
    ELSE IF LitAt(s, 1, L_x_com)
         THEN L_twitter_com \o ReplaceXCom(SubSeq(s, Len(L_x_com) + 1, Len(s)))
         ELSE <<Head(s)>> \o ReplaceXCom(Tail(s))

TAB == <<"\t">>

LF == <<"\n">>

\* f"{domain}\t{flag}\t{path}\t{secure}\t{expiration}\t{name}\t{value}\n"
CookieLine(domain, flag, path, secure, expiration, name, value) ==
    domain \o TAB \o <<flag>> \o TAB \o path \o TAB \o <<secure>> \o TAB
      \o <<expiration>> \o TAB \o name \o TAB \o value \o LF

\* The two f.write calls of the header.
HEADER ==
    <<"# Netscape HTTP Cookie File", "\n",
      "# This is a generated file! Do not edit.", "\n", "\n">>

\* The alias line of a written cookie.
AliasLines(domain, flag, path, secure, expiration, name, value) ==
    IF HasXCom(domain)
    THEN CookieLine(ReplaceXCom(domain), flag, path, secure, expiration, name, value)
    ELSE << >>

\* Whether the body of the loop writes the cookie.
WritesCookieMutNoDomainTest(name, value, domain) == PyTruthy(name) /\ PyTruthy(value)

WritesCookieMutNoValueTest(name, value, domain) == PyTruthy(name) /\ domain # << >>

WritesCookie(name, value, domain) == PyTruthy(name) /\ PyTruthy(value) /\ domain # << >>

\* One pass of the loop body: what it writes, or the exception it raises.
\* A cookie that is not a JSON object has no get; a domain that is not a
\* string has no startswith.
CookieLines(cookie) ==
    IF ~cookie.object THEN [raises |-> "AttributeError", text |-> << >>]
    ELSE LET d == Get(cookie.domain, JStr(<< >>))
         IN  IF d.t # "str" THEN [raises |-> "AttributeError", text |-> << >>]
             ELSE LET domain == IF d.s # << >> /\ d.s[1] # "." THEN <<".">> \o d.s ELSE d.s
                      flag == IF domain # << >> /\ domain[1] = "." THEN "TRUE" ELSE "FALSE"
                      path == Format(Get(cookie.path, JStr(<<"/">>)))
                      secure == IF PyTruthy(Get(cookie.secure, JBool(FALSE)))
                                THEN "TRUE" ELSE "FALSE"
                      exp == Expiration(cookie)
                      name == Get(cookie.name, JStr(<< >>))
                      value == Get(cookie.value, JStr(<< >>))
                  IN  IF exp.raises # "" THEN [raises |-> exp.raises, text |-> << >>]
                      ELSE IF WritesCookie(name, value, domain)
                      THEN [raises |-> "",
                            text |-> CookieLine(domain, flag, path, secure, exp.text,
                                                Format(name), Format(value))
                                       \o AliasLines(domain, flag, path, secure, exp.text,
                                                     Format(name), Format(value))]
                      ELSE [raises |-> "", text |-> << >>]

\* The for loop from cookie i on, text being what the file holds so far.
RECURSIVE WriteCookies(_, _, _)
WriteCookies(cookies, i, text) ==
    IF i > Len(cookies) THEN [ok |-> TRUE, text |-> text]
    ELSE LET r == CookieLines(cookies[i])
         IN  IF r.raises # "" THEN [ok |-> FALSE, text |-> text]
             ELSE WriteCookies(cookies, i + 1, text \o r.text)

\* The content of raw_cookies.json: no such file, an empty file, text that
\* is not JSON, a JSON list, an object with a list or with null under
\* 'cookies', or any other JSON value.
RawFile(kind, cookies) == [kind |-> kind, cookies |-> cookies]

Missing == RawFile("missing", << >>)
EmptyFile == RawFile("empty", << >>)
RawInvalid == RawFile("invalid", << >>)
RawOther == RawFile("other", << >>)
RawObjectNull == RawFile("object_null", << >>)
RawList(cookies) == RawFile("list", cookies)
RawObject(cookies) == RawFile("object", cookies)

NoFile == [exists |-> FALSE, text |-> << >>]

File(text) == [exists |-> TRUE, text |-> text]

\* open(output_path, 'w'): what the file holds once it is open.
OpenForWritingMutAppend(old) == old.text

OpenForWriting(old) == << >>

\* convert_raw_cookies_to_netscape(raw_cookies_path), old being cookies.txt
\* before the call: the return value and cookies.txt after the call.  An
\* exception inside the with block closes the file with what was written.
convert_raw_cookies_to_netscape(raw, old) ==
    IF raw.kind \in {"missing", "empty", "invalid", "other"}
    THEN [ok |-> FALSE, file |-> old]
    ELSE LET start == OpenForWriting(old) \o HEADER
         IN  IF raw.kind = "object_null" THEN [ok |-> FALSE, file |-> File(start)]
             ELSE LET w == WriteCookies(raw.cookies, 1, start)
                  IN  [ok |-> w.ok, file |-> File(w.text)]

(***************************************************************************)
(* The transform on its own: it is called again and again on the same      *)
(* cookies.txt, each time with any of RawInputs.                           *)
(***************************************************************************)
MaxCookies == 3

Cookie(domain, path, secure, expirationDate, expires, name, value) ==
    [object |-> TRUE, domain |-> domain, path |-> path, secure |-> secure,
     expirationDate |-> expirationDate, expires |-> expires, name |-> name,
     value |-> value]

\* An element of the list that is not a JSON object (a string, a number).
NotAnObject ==
    [object |-> FALSE, domain |-> Absent, path |-> Absent, secure |-> Absent,
     expirationDate |-> Absent, expires |-> Absent, name |-> Absent, value |-> Absent]

D_dot == <<".">>
D_fox_com == <<"f", "o">> \o L_x_com
D_api_x_com == <<"a", "p", "i", ".">> \o L_x_com
D_example_org == <<"e", "x", "a", "m", "p", "l", "e", ".", "o", "r", "g">>
T_a == <<"a">>
T_b == <<"b">>
T_sid == <<"s", "i", "d">>
T_tabbed == <<"b", "\t", "c">>
T_two_lines == <<"b", "\n", "c">>
T_path == <<"/", "i">>
T_12 == <<"1", "2">>
T_12_7 == <<"1", "2", ".", "7">>
T_abc == <<"a", "b", "c">>
T_inf == <<"i", "n", "f">>
T_nan == <<"n", "a", "n">>

\* The example of the specification.
CkExample == Cookie(JStr(L_x_com), Absent, JBool(TRUE), Absent, Absent, JStr(T_a), JStr(T_b))
\* Dotted domain, every field given.
CkDotted ==
    Cookie(JStr(D_dot \o L_x_com), JStr(T_path), JBool(FALSE), JNum(1700), JNum(5),
           JStr(T_sid), JStr(T_b))
CkTwitter ==
    Cookie(JStr(L_twitter_com), Absent, Absent, JStr(T_12_7), Absent, JStr(T_a), JStr(T_b))
CkOther ==
    Cookie(JStr(D_example_org), Absent, JBool(TRUE), Absent, JHalf(12), JStr(T_a), JStr(T_b))
CkFox == Cookie(JStr(D_fox_com), Absent, Absent, JStr(T_12), Absent, JStr(T_a), JStr(T_b))
CkApi == Cookie(JStr(D_api_x_com), Absent, Absent, JNum(0 - 1), Absent, JStr(T_a), JStr(T_b))
\* Name or value missing or empty.
CkNoName == Cookie(JStr(L_x_com), Absent, Absent, JNum(1700), Absent, Absent, JStr(T_b))
CkEmptyName == Cookie(JStr(L_x_com), Absent, Absent, Absent, Absent, JStr(<< >>), JStr(T_b))
CkNoValue == Cookie(JStr(D_example_org), Absent, Absent, Absent, Absent, JStr(T_a), Absent)
CkEmptyValue == Cookie(JStr(L_x_com), Absent, Absent, Absent, Absent, JStr(T_a), JStr(<< >>))
CkNullValue == Cookie(JStr(L_x_com), Absent, Absent, Absent, Absent, JStr(T_a), JNull)
\* Domain missing, empty, null.
CkNoDomain == Cookie(Absent, Absent, Absent, Absent, Absent, JStr(T_a), JStr(T_b))
CkEmptyDomain == Cookie(JStr(<< >>), Absent, Absent, Absent, Absent, JStr(T_a), JStr(T_b))
CkNullDomain == Cookie(JNull, Absent, Absent, Absent, Absent, JStr(T_a), JStr(T_b))
\* Expiry: text that is no number with a usable expires, null with a usable
\* expires, 0 with a usable expires, nan, infinity as a number and as text.
CkBadExpiry ==
    Cookie(JStr(D_example_org), Absent, Absent, JStr(T_abc), JNum(99), JStr(T_a), JStr(T_b))
CkNullExpiry ==
    Cookie(JStr(D_example_org), Absent, Absent, JNull, JNum(99), JStr(T_a), JStr(T_b))
CkZeroExpiry ==
    Cookie(JStr(D_example_org), Absent, Absent, JNum(0), JNum(99), JStr(T_a), JStr(T_b))
CkNanExpiry ==
    Cookie(JStr(D_example_org), Absent, Absent, JStr(T_nan), Absent, JStr(T_a), JStr(T_b))
CkInfExpiry ==
    Cookie(JStr(D_example_org), Absent, Absent, JInf, Absent, JStr(T_a), JStr(T_b))
CkInfText ==
    Cookie(JStr(D_example_org), Absent, Absent, Absent, JStr(T_inf), JStr(T_a), JStr(T_b))
CkNoNameInfExpiry ==
    Cookie(JStr(D_example_org), Absent, Absent, JInf, Absent, Absent, JStr(T_b))
\* A tab and a line feed inside a value.
CkTabbed == Cookie(JStr(D_example_org), Absent, Absent, Absent, Absent, JStr(T_a), JStr(T_tabbed))
CkTwoLines ==
    Cookie(JStr(D_example_org), Absent, Absent, Absent, Absent, JStr(T_a), JStr(T_two_lines))

CookiePool ==
    {CkExample, CkDotted, CkTwitter, CkOther, CkFox, CkApi, CkNoName, CkEmptyName,
     CkNoValue, CkEmptyValue, CkNullValue, CkNoDomain, CkEmptyDomain, CkNullDomain,
     CkBadExpiry, CkNullExpiry, CkZeroExpiry, CkNanExpiry, CkInfExpiry, CkInfText,
     CkNoNameInfExpiry, CkTabbed, CkTwoLines, NotAnObject}

CorePool == {CkExample, CkOther, CkNoName, CkInfExpiry}

CookieLists ==
    {<<c>> : c \in CookiePool} \cup UNION {[1..n -> CorePool] : n \in 0..MaxCookies}

RawInputs ==
    {RawList(cookies) : cookies \in CookieLists}
      \cup {RawObject(<<CkDotted, CkNoValue>>), RawObjectNull, RawInvalid, RawOther}

\* What a call of the transform was: replaced tells that cookies.txt held
\* cookie lines when it was called.
Conversion(raw, ok, old) ==
    [op |-> "convert", input |-> raw, ok |-> ok,
     replaced |-> old.exists /\ Len(old.text) > Len(HEADER)]

NoConversion == [op |-> "none", input |-> RawOther, ok |-> FALSE, replaced |-> FALSE]

ConvertStart ==
    /\ cookies_txt = NoFile
    /\ conv = NoConversion

ConvertIdle == ConvertStart

\* A call of convert_raw_cookies_to_netscape on a raw_cookies.json that
\* holds raw.
ConvertRaw ==
    \E raw \in RawInputs :
        LET r == convert_raw_cookies_to_netscape(raw, cookies_txt)
        IN  /\ cookies_txt' = r.file
            /\ conv' = Conversion(raw, r.ok, cookies_txt)
            /\ UNCHANGED <<rankVars, urlVars, validVars, now, serverVars, watchVars, extraVars>>


(***************************************************************************)
(* src/cookie_watcher.py: the startup check and CookieFileHandler.  The    *)
(* clock counts half seconds.  The observer delivers events one at a time; *)
(* the handler of an event sleeps before it looks at the file, and the     *)
(* writer of the files goes on while it sleeps and between its calls.      *)
(***************************************************************************)
MaxClock == 5

\* The 2-second cooldown and time.sleep(0.5), in half seconds.
COOLDOWN == 4

SLEEP == 1

RAW_NAME == "raw_cookies.json"

\* str.lower() on the file names of the model.
Lower(name) ==
    CASE name = "Raw_Cookies.JSON" -> "raw_cookies.json"
      [] OTHER -> name

\* os.path.join(watch_directory, name)
Path(name) == [dir |-> ".", name |-> name]

\* os.path.basename(file_path)
basename(file_path) == file_path.name

WatchNames == {RAW_NAME, "Raw_Cookies.JSON", "cookies.json"}

WatchPaths == {Path(name) : name \in WatchNames}

EventTypes == {"created", "modified", "deleted"}

\* What the writer puts under a name.
Contents(name) ==
    IF name = RAW_NAME
    THEN {Missing, EmptyFile, RawList(<<CkExample>>), RawList(<<CkInfExpiry>>)}
    ELSE IF name = "Raw_Cookies.JSON" THEN {Missing, RawList(<<CkOther>>)}
    ELSE {RawList(<<CkDotted>>)}

\* on_created and on_modified call handle_file_event for an event that is
\* not a directory event; the handlers of the other events do nothing.
DispatchedMutDirectories(type, is_directory) == type \in {"created", "modified"}

Dispatched(type, is_directory) == type \in {"created", "modified"} /\ ~is_directory

\* filename.lower() != 'raw_cookies.json' returns.
NameMatches(filename) == Lower(filename) = RAW_NAME

\* The cooldown test on last_processed.
CoolingMutInclusive(file_path, current_time) ==
    /\ file_path \in DOMAIN last_processed
    /\ current_time - last_processed[file_path] <= COOLDOWN

Cooling(file_path, current_time) ==
    /\ file_path \in DOMAIN last_processed
    /\ current_time - last_processed[file_path] < COOLDOWN

\* os.path.exists(file_path) and os.path.getsize(file_path) > 0
ExistsNotEmpty(file) == file.kind \notin {"missing", "empty"}

Idle == [at |-> "idle", path |-> Path(RAW_NAME)]

At(at, file_path) == [at |-> at, path |-> file_path]

\* Where the caller of the transform goes on: to os.remove after a success.
AfterConvertMutAlwaysRemove(success, remove_at, file_path) == At(remove_at, file_path)

AfterConvert(success, remove_at, file_path) ==
    IF success THEN At(remove_at, file_path) ELSE Idle

\* No event was accepted for the path before.
Never == 0 - 1

\* current_time - self.last_processed[file_path], where there is one.
Age(file_path, current_time) ==
    IF file_path \in DOMAIN last_processed
    THEN current_time - last_processed[file_path]
    ELSE Never

Seen(op, type, is_directory, file_path, attempted, age) ==
    [op |-> op, type |-> type, is_directory |-> is_directory, path |-> file_path,
     attempted |-> attempted, age |-> age]

NoEvent == Seen("none", "", FALSE, Path(RAW_NAME), FALSE, Never)

WatchStart ==
    /\ directory \in {[p \in WatchPaths |->
                          IF p.name = RAW_NAME THEN c
                          ELSE IF p.name = "cookies.json" THEN RawList(<<CkDotted>>)
                          ELSE Missing] : c \in Contents(RAW_NAME)}
    /\ last_processed = << >>
    /\ clock = 0
    /\ w_pc = At("startup", Path(RAW_NAME))
    /\ seen = NoEvent

WatchIdle ==
    /\ directory = [p \in WatchPaths |-> Missing]
    /\ last_processed = << >>
    /\ clock = 0
    /\ w_pc = Idle
    /\ seen = NoEvent

\* Half a second passes.
WatchTick ==
    /\ clock < MaxClock
    /\ clock' = clock + 1
    /\ seen' = Seen("tick", "", FALSE, Path(RAW_NAME), FALSE, Never)
    /\ UNCHANGED <<directory, last_processed, w_pc, cookieVars>>
    /\ UNCHANGED <<rankVars, urlVars, validVars, now, serverVars, extraVars>>

\* Someone writes, rewrites or deletes a file of the watched directory.
WriterWrites ==
    \E p \in WatchPaths : \E c \in Contents(p.name) :
        /\ directory' = [directory EXCEPT ![p] = c]
        /\ seen' = Seen("write", "", FALSE, Path(RAW_NAME), FALSE, Never)
        /\ UNCHANGED <<last_processed, clock, w_pc, cookieVars>>
        /\ UNCHANGED <<rankVars, urlVars, validVars, now, serverVars, extraVars>>

\* start_cookie_watcher: the check for an existing raw_cookies.json, up to
\* the return of the transform.
StartupCheck ==
    /\ w_pc.at = "startup"
    /\ LET raw_cookies_path == Path(RAW_NAME)
       IN  IF directory[raw_cookies_path].kind # "missing"
           THEN LET r == convert_raw_cookies_to_netscape(directory[raw_cookies_path], cookies_txt)
                IN  /\ cookies_txt' = r.file
                    /\ conv' = Conversion(directory[raw_cookies_path], r.ok, cookies_txt)
                    /\ w_pc' = AfterConvert(r.ok, "startup_remove", raw_cookies_path)
                    /\ seen' = Seen("startup", "", FALSE, raw_cookies_path, TRUE, Never)
           ELSE /\ w_pc' = Idle
                /\ seen' = Seen("startup", "", FALSE, raw_cookies_path, FALSE, Never)
                /\ UNCHANGED cookieVars
    /\ UNCHANGED <<directory, last_processed, clock>>
    /\ UNCHANGED <<rankVars, urlVars, validVars, now, serverVars, extraVars>>

\* The observer delivers an event: on_created, on_modified and
\* handle_file_event up to time.sleep.
HandlerStart ==
    /\ w_pc.at = "idle"
    /\ \E type \in EventTypes : \E is_directory \in BOOLEAN : \E file_path \in WatchPaths :
           LET current_time == clock
               accepted == /\ Dispatched(type, is_directory)
                           /\ NameMatches(basename(file_path))
                           /\ ~Cooling(file_path, current_time)
           IN  /\ accepted => clock + SLEEP <= MaxClock
               /\ IF accepted
                  THEN /\ last_processed' =
                              [p \in DOMAIN last_processed \cup {file_path} |->
                                  IF p = file_path THEN current_time ELSE last_processed[p]]
                       /\ w_pc' = At("sleeping", file_path)
                  ELSE UNCHANGED <<last_processed, w_pc>>
               /\ seen' = Seen("event", type, is_directory, file_path, FALSE, Age(file_path, current_time))
    /\ UNCHANGED <<directory, clock, cookieVars>>
    /\ UNCHANGED <<rankVars, urlVars, validVars, now, serverVars, extraVars>>

\* handle_file_event after time.sleep(0.5), up to the return of the
\* transform.
HandlerConvert ==
    /\ w_pc.at = "sleeping"
    /\ LET file_path == w_pc.path
           woken == last_processed[file_path] + SLEEP
       IN  /\ clock' = IF clock < woken THEN woken ELSE clock
           /\ IF ExistsNotEmpty(directory[file_path])
              THEN LET r == convert_raw_cookies_to_netscape(directory[file_path], cookies_txt)
                   IN  /\ cookies_txt' = r.file
                       /\ conv' = Conversion(directory[file_path], r.ok, cookies_txt)
                       /\ w_pc' = AfterConvert(r.ok, "remove", file_path)
                       /\ seen' = Seen("convert", "", FALSE, file_path, TRUE, Never)
              ELSE /\ w_pc' = Idle
                   /\ seen' = Seen("convert", "", FALSE, file_path, FALSE, Never)
                   /\ UNCHANGED cookieVars
    /\ UNCHANGED <<directory, last_processed>>
    /\ UNCHANGED <<rankVars, urlVars, validVars, now, serverVars, extraVars>>

\* os.remove(file_path) after a successful conversion, in the handler and in
\* the startup check; its errors are swallowed.
RemoveRaw ==
    /\ w_pc.at \in {"remove", "startup_remove"}
    /\ directory' = [directory EXCEPT ![w_pc.path] = Missing]
    /\ w_pc' = Idle
    /\ seen' = Seen("remove", "", FALSE, w_pc.path, FALSE, Never)
    /\ UNCHANGED <<last_processed, clock, cookieVars>>
    /\ UNCHANGED <<rankVars, urlVars, validVars, now, serverVars, extraVars>>

(***************************************************************************)
(* POST /cookies/add-raw.  request.raw_cookies is a string; the handler    *)
(* parses it, writes the list to a temporary file and hands that file to   *)
(* convert_raw_cookies_to_netscape.                                        *)
(***************************************************************************)
\* What the body of the request holds: any text the transform of the model
\* is given, as a string.
AddRawBodies == RawInputs \cup {EmptyFile}

\* CookiesResponse
CookiesResponse(success, cookies_count) ==
    Some([success |-> success, cookies_count |-> cookies_count])

add_raw_cookies ==
    \E raw_cookies \in AddRawBodies :
        /\ IF raw_cookies.kind \in {"empty", "invalid"}
           THEN /\ resp' = Response("add_raw", NoRequest, 400, "Invalid JSON format", None, << >>)
                /\ UNCHANGED <<cookieVars, cookies_file>>
           ELSE IF raw_cookies.kind # "list"
           THEN /\ resp' = Response("add_raw", NoRequest, 500,
                                    "Error processing cookies: Cookies must be an array",
                                    None, << >>)
                /\ UNCHANGED <<cookieVars, cookies_file>>
           ELSE LET r == convert_raw_cookies_to_netscape(raw_cookies, cookies_txt)
                    cookies_count == Len(raw_cookies.cookies)
                IN  /\ cookies_txt' = r.file
                    /\ cookies_file' = r.file.exists
                    /\ conv' = Conversion(raw_cookies, r.ok, cookies_txt)
                    /\ resp' = IF r.ok
                               THEN Response("add_raw", NoRequest, 200, "",
                                             CookiesResponse(TRUE, Some(cookies_count)), << >>)
                               ELSE Response("add_raw", NoRequest, 200, "Failed to convert cookies",
                                             CookiesResponse(FALSE, None), << >>)
        /\ UNCHANGED <<video_cache, pending, now, rankVars, urlVars, validVars, watchVars, extraVars>>

(***************************************************************************)
(* extract_video_info called once, and the except clause of                *)
(* fetch_video_data on what it raises.                                     *)
(***************************************************************************)
ErrorTexts ==
    {ERR_403, ERR_404, ERR_401, ERR_429, ERR_NSFW, ERR_403_NOT_FOUND, ERR_401_TOO_MANY,
     ERR_NETWORK, ERR_OTHER}

\* What yt-dlp does in an attempt of the model: one of the errors, no info,
\* no format, no mp4 format, a best format without URL above one with a
\* URL, and lists that give a result.
ExtractAnswers ==
    {AnswerError(text) : text \in ErrorTexts}
    \cup {AnswerNone, AnswerInfo(<< >>), AnswerInfo(<<FmtF>>), AnswerInfo(<<FmtG, FmtI>>),
          AnswerInfo(GoodFormats), AnswerInfo(<<FmtI>>)}

NoExtraction == [result |-> Raise(""), asked |-> << >>, detail |-> ""]

ExtractStart ==
    /\ ex_pc = "input"
    /\ ex_first \in ExtractAnswers
    /\ ex_second \in ExtractAnswers
    /\ ex_cookies \in BOOLEAN
    /\ ex_out = NoExtraction

ExtractIdle ==
    /\ ex_pc = "idle"
    /\ ex_first = AnswerNone
    /\ ex_second = AnswerNone
    /\ ex_cookies = FALSE
    /\ ex_out = NoExtraction

\* fetch_video_data from the call of extract_video_info on: the result, or
\* the detail of the HTTPException for what it raised.
ExtractAndReport ==
    /\ ex_pc = "input"
    /\ ex_pc' = "done"
    /\ LET x == extract_video_info(ex_first, ex_second, ex_cookies, now)
       IN  ex_out' = [result |-> x.result, asked |-> x.asked,
                      detail |-> IF x.result.ok THEN "" ELSE ErrorDetail(x.result.error)]
    /\ UNCHANGED <<ex_first, ex_second, ex_cookies, raceVars, dropVars>>
    /\ UNCHANGED <<rankVars, urlVars, validVars, now, serverVars, cookieVars, watchVars>>

(***************************************************************************)
(* convert_raw_cookies_to_netscape step by step, next to a reader of       *)
(* cookies.txt (yt-dlp loading the cookiefile of the second attempt, in    *)
(* the server process).  f.write puts its text into the buffer of f.  A    *)
(* write that finds the buffer full sends what the buffer holds to disk    *)
(* first, so the disk holds whole writes, all but the last one or more;    *)
(* leaving the with block sends the rest.  How many writes fill the buffer *)
(* depends on their sizes, which the model leaves open.  cookies_txt is    *)
(* the file on disk, buffered the writes not yet on disk, oldest first.    *)
(***************************************************************************)
Step(at, cookies, done, old) == [at |-> at, cookies |-> cookies, done |-> done, old |-> old]

NotRunning == Step("idle", << >>, 0, NoFile)

\* The lists the stepwise transform is run on.
RaceLists == {<<CkExample>>, <<CkOther, CkExample>>, <<CkOther, CkInfExpiry>>}

NoRead == [op |-> "none", text |-> << >>, during |-> FALSE, cookies |-> << >>]

\* The texts of a sequence of writes, one after the other.
RECURSIVE Joined(_)
Joined(writes) == IF writes = << >> THEN << >> ELSE Head(writes) \o Joined(Tail(writes))

\* The writes that make up text, each ending with its line feed; no field
\* of the cookies of RaceLists holds a line feed.
RECURSIVE WritesOf(_, _)
WritesOf(text, from) ==
    IF from > Len(text) THEN << >>
    ELSE LET end == CHOOSE i \in from..Len(text) :
                        text[i] = "\n" /\ \A j \in from..(i - 1) : text[j] # "\n"
         IN  <<SubSeq(text, from, end)>> \o WritesOf(text, end + 1)

\* The two writes of the header.
HeaderWrites == <<SubSeq(HEADER, 1, 2), SubSeq(HEADER, 3, Len(HEADER))>>

\* What a flush puts on disk: the first k writes of the buffer.
FlushedMutTail(buffer, k) == Joined(SubSeq(buffer, Len(buffer) - k + 1, Len(buffer)))

Flushed(buffer, k) == Joined(SubSeq(buffer, 1, k))

RaceIdle ==
    /\ tw = NotRunning
    /\ buffered = << >>
    /\ observed = NoRead

\* open(output_path, 'w') and the two writes of the header.
TransformOpen ==
    /\ tw.at = "idle"
    /\ \E cookies \in RaceLists : tw' = Step("open", cookies, 0, cookies_txt)
    /\ cookies_txt' = File(OpenForWriting(cookies_txt))
    /\ buffered' = HeaderWrites
    /\ observed' = NoRead
    /\ UNCHANGED <<conv, extractVars, dropVars>>
    /\ UNCHANGED <<rankVars, urlVars, validVars, now, serverVars, watchVars>>

\* One pass of the for loop; an exception leaves the with block, which
\* closes the file, and the function returns False.
TransformWrite ==
    /\ tw.at = "open"
    /\ tw.done < Len(tw.cookies)
    /\ LET r == CookieLines(tw.cookies[tw.done + 1])
       IN  IF r.raises = ""
           THEN /\ buffered' = buffered \o WritesOf(r.text, 1)
                /\ tw' = [tw EXCEPT !.done = tw.done + 1]
                /\ UNCHANGED <<cookies_txt, conv>>
           ELSE /\ cookies_txt' = File(cookies_txt.text \o Joined(buffered))
                /\ buffered' = << >>
                /\ conv' = Conversion(RawList(tw.cookies), FALSE, tw.old)
                /\ tw' = NotRunning
    /\ observed' = NoRead
    /\ UNCHANGED <<extractVars, dropVars>>
    /\ UNCHANGED <<rankVars, urlVars, validVars, now, serverVars, watchVars>>

\* A write has found the buffer full: the writes before it are on disk.
BufferFlush ==
    /\ tw.at = "open"
    /\ \E k \in 1..(Len(buffered) - 1) :
           /\ cookies_txt' = File(cookies_txt.text \o Flushed(buffered, k))
           /\ buffered' = SubSeq(buffered, k + 1, Len(buffered))
    /\ observed' = NoRead
    /\ UNCHANGED <<tw, conv, extractVars, dropVars>>
    /\ UNCHANGED <<rankVars, urlVars, validVars, now, serverVars, watchVars>>

\* The end of the with block after the last cookie, and return True.
TransformClose ==
    /\ tw.at = "open"
    /\ tw.done = Len(tw.cookies)
    /\ cookies_txt' = File(cookies_txt.text \o Joined(buffered))
    /\ buffered' = << >>
    /\ conv' = Conversion(RawList(tw.cookies), TRUE, tw.old)
    /\ tw' = NotRunning
    /\ observed' = NoRead
    /\ UNCHANGED <<extractVars, dropVars>>
    /\ UNCHANGED <<rankVars, urlVars, validVars, now, serverVars, watchVars>>

\* The second attempt of extract_video_info: os.path.exists(COOKIES_FILE)
\* holds and yt-dlp reads the file.
ReaderReads ==
    /\ cookies_txt.exists
    /\ observed' = [op |-> "read", text |-> cookies_txt.text, during |-> tw.at = "open",
                    cookies |-> tw.cookies]
    /\ UNCHANGED <<tw, buffered, cookieVars, extractVars, dropVars>>
    /\ UNCHANGED <<rankVars, urlVars, validVars, now, serverVars, watchVars>>

(***************************************************************************)
(* The watcher with a writer that drops one raw_cookies.json into the      *)
(* watched directory: it creates the file, at once with its whole content  *)
(* or first with none or a part of it, and every write of it raises an     *)
(* event, which the observer delivers to the handler in order.  The        *)
(* events for cookies.txt and the deletion of raw_cookies.json end at the  *)
(* name test and at the missing on_deleted, and are left out.              *)
(***************************************************************************)
Event(type, file_path) == [type |-> type, path |-> file_path]

\* The finished file, and what there is of it before.
Complete == RawList(<<CkExample>>)

Incomplete == {EmptyFile, RawInvalid}

DropIdle ==
    /\ events = << >>
    /\ writer = "none"

\* The watcher is past its startup check and waits for events.
DropStart ==
    /\ directory = [p \in WatchPaths |-> Missing]
    /\ last_processed = << >>
    /\ clock = 0
    /\ w_pc = Idle
    /\ seen = NoEvent
    /\ events = << >>
    /\ writer = "none"

\* The writer creates raw_cookies.json.
DropCreate ==
    /\ writer = "none"
    /\ \E c \in Incomplete \cup {Complete} :
           /\ directory' = [directory EXCEPT ![Path(RAW_NAME)] = c]
           /\ writer' = IF c = Complete THEN "finished" ELSE "started"
    /\ events' = Append(events, Event("created", Path(RAW_NAME)))
    /\ seen' = Seen("write", "", FALSE, Path(RAW_NAME), FALSE, Never)
    /\ UNCHANGED <<last_processed, clock, w_pc, cookieVars, extractVars, raceVars>>
    /\ UNCHANGED <<rankVars, urlVars, validVars, now, serverVars>>

\* The writer writes the rest of the file and closes it.
DropFinish ==
    /\ writer = "started"
    /\ directory' = [directory EXCEPT ![Path(RAW_NAME)] = Complete]
    /\ writer' = "finished"
    /\ events' = Append(events, Event("modified", Path(RAW_NAME)))
    /\ seen' = Seen("write", "", FALSE, Path(RAW_NAME), FALSE, Never)
    /\ UNCHANGED <<last_processed, clock, w_pc, cookieVars, extractVars, raceVars>>
    /\ UNCHANGED <<rankVars, urlVars, validVars, now, serverVars>>

\* The observer delivers the oldest event: on_created, on_modified and
\* handle_file_event up to time.sleep.
Deliver ==
    /\ w_pc.at = "idle"
    /\ events # << >>
    /\ LET type == Head(events).type
           file_path == Head(events).path
           current_time == clock
           accepted == /\ Dispatched(type, FALSE)
                       /\ NameMatches(basename(file_path))
                       /\ ~Cooling(file_path, current_time)
       IN  /\ IF accepted
              THEN /\ last_processed' =
                          [p \in DOMAIN last_processed \cup {file_path} |->
                              IF p = file_path THEN current_time ELSE last_processed[p]]
                   /\ w_pc' = At("sleeping", file_path)
              ELSE UNCHANGED <<last_processed, w_pc>>
           /\ seen' = Seen("event", type, FALSE, file_path, FALSE,
                           Age(file_path, current_time))
    /\ events' = Tail(events)
    /\ UNCHANGED <<directory, clock, writer, cookieVars, extractVars, raceVars>>
    /\ UNCHANGED <<rankVars, urlVars, validVars, now, serverVars>>

(***************************************************************************)
(* The specifications.                                                     *)
(***************************************************************************)
\* None of the parts below is running.
ExtraIdle == ExtractIdle /\ RaceIdle /\ DropIdle

RankInit ==
    RankStart /\ UrlIdle /\ ValidIdle /\ now = 0 /\ ServerIdle /\ ConvertIdle /\ WatchIdle /\ ExtraIdle

NextRank == RunRanking

SpecRank == RankInit /\ [][NextRank]_vars

UrlInit ==
    UrlStart /\ RankIdle /\ ValidIdle /\ now = 0 /\ ServerIdle /\ ConvertIdle /\ WatchIdle /\ ExtraIdle

NextUrl == CheckUrl

SpecUrl == UrlInit /\ [][NextUrl]_vars

ValidInit ==
    ValidStart /\ RankIdle /\ UrlIdle /\ ServerIdle /\ ConvertIdle /\ WatchIdle /\ ExtraIdle

NextValid == CheckValid

SpecValid == ValidInit /\ [][NextValid]_vars

Init ==
    ServerStart /\ now = 0 /\ RankIdle /\ UrlIdle /\ ValidIdle /\ ConvertIdle /\ WatchIdle /\ ExtraIdle

\* The server, one request at a time.
Next ==
    \/ Tick
    \/ Fetch
    \/ clear_cache
    \/ clear_cookies
    \/ StoreCookies
    \/ test_endpoint
    \/ upload_cookies

Spec == Init /\ [][Next]_vars

\* The server with requests that wait for each other; no cookie file.
NextRace ==
    \/ Tick
    \/ Arrive
    \/ Handle
    \/ clear_cache

SpecRace == Init /\ [][NextRace]_vars

\* The cookie transform, called again and again.
ConvertInit ==
    ConvertStart /\ WatchIdle /\ RankIdle /\ UrlIdle /\ ValidIdle /\ now = 0 /\ ServerIdle /\ ExtraIdle

NextConvert == ConvertRaw

SpecConvert == ConvertInit /\ [][NextConvert]_vars

\* The watcher process and the writer of the files it watches.
WatchInit ==
    WatchStart /\ ConvertStart /\ RankIdle /\ UrlIdle /\ ValidIdle /\ now = 0 /\ ServerIdle /\ ExtraIdle

NextWatch ==
    \/ WatchTick
    \/ WriterWrites
    \/ StartupCheck
    \/ HandlerStart
    \/ HandlerConvert
    \/ RemoveRaw

SpecWatch == WatchInit /\ [][NextWatch]_vars

\* POST /cookies/add-raw, request after request.
AddRawInit ==
    /\ ServerStart /\ ConvertStart /\ now = 0
    /\ RankIdle /\ UrlIdle /\ ValidIdle /\ WatchIdle /\ ExtraIdle

NextAddRaw == add_raw_cookies

SpecAddRaw == AddRawInit /\ [][NextAddRaw]_vars

\* extract_video_info called once by fetch_video_data.
ExtractInit ==
    /\ ExtractStart /\ RaceIdle /\ DropIdle
    /\ ConvertIdle /\ WatchIdle /\ RankIdle /\ UrlIdle /\ ValidIdle /\ now = 0 /\ ServerIdle

NextExtract == ExtractAndReport

SpecExtract == ExtractInit /\ [][NextExtract]_vars

\* The transform in steps and a reader of cookies.txt.
RaceInit ==
    /\ ConvertStart /\ RaceIdle /\ ExtractIdle /\ DropIdle
    /\ WatchIdle /\ RankIdle /\ UrlIdle /\ ValidIdle /\ now = 0 /\ ServerIdle

NextWriteRace ==
    \/ TransformOpen
    \/ TransformWrite
    \/ BufferFlush
    \/ TransformClose
    \/ ReaderReads

SpecWriteRace == RaceInit /\ [][NextWriteRace]_vars

\* The watcher and the writer of one raw_cookies.json.  The observer
\* thread delivers every event and the handler runs on; the writer
\* finishes its file.
DropInit ==
    /\ DropStart /\ ConvertStart /\ ExtractIdle /\ RaceIdle
    /\ RankIdle /\ UrlIdle /\ ValidIdle /\ now = 0 /\ ServerIdle

NextDrop ==
    \/ WatchTick
    \/ DropCreate
    \/ DropFinish
    \/ Deliver
    \/ HandlerConvert
    \/ RemoveRaw

SpecDrop ==
    /\ DropInit
    /\ [][NextDrop]_vars
    /\ WF_vars(DropFinish)
    /\ WF_vars(Deliver)
    /\ WF_vars(HandlerConvert)
    /\ WF_vars(RemoveRaw)

(***************************************************************************)
(* Helpers of the ranking claims: the claims' own reading of the order and *)
(* of the labels, written without the operators of the model above.        *)
(***************************************************************************)
\* The number of positions of s that hold x.
Occurrences(s, x) == Cardinality({i \in 1..Len(s) : s[i] = x})

SamePopulation(s, t) ==
    /\ Len(s) = Len(t)
    /\ \A i \in 1..Len(s) : Occurrences(s, s[i]) = Occurrences(t, s[i])

Val0(o) == IF Len(o) = 0 THEN 0 ELSE o[1]

\* f ranks at least as high as g: (height, tbr, vbr, fps), missing as 0.
RanksAtLeast(f, g) ==
    \/ Val0(f.height) > Val0(g.height)
    \/ /\ Val0(f.height) = Val0(g.height)
       /\ \/ Val0(f.tbr) > Val0(g.tbr)
          \/ /\ Val0(f.tbr) = Val0(g.tbr)
             /\ \/ Val0(f.vbr) > Val0(g.vbr)
                \/ /\ Val0(f.vbr) = Val0(g.vbr)
                   /\ Val0(f.fps) >= Val0(g.fps)

RankedFormats == [i \in 1..Len(rk_sorted) |-> rk_sorted[i].format]

\* C1: when at least one descriptor qualifies, the ranked entries are the
\* qualifying descriptors, each as often as the input holds it, in
\* descending order of (height, total bitrate, video bitrate, frame rate)
\* with missing fields as 0; the first of them has the greatest height, and
\* its URL is the download_url of a result.
C1_RankedDescending ==
    (rk_pc = "done" /\ \E i \in 1..Len(rk_formats) :
                          rk_formats[i].ext = Some("mp4")
                          /\ rk_formats[i].vcodec # Some("none"))
    => /\ Len(rk_sorted) >= 1
       /\ \A i \in 1..Len(rk_sorted) : \A j \in i..Len(rk_sorted) :
              RanksAtLeast(RankedFormats[i], RankedFormats[j])
       /\ \A i \in 1..Len(rk_formats) :
              (rk_formats[i].ext = Some("mp4") /\ rk_formats[i].vcodec # Some("none"))
              => /\ Val0(RankedFormats[1].height) >= Val0(rk_formats[i].height)
                 /\ Occurrences(RankedFormats, rk_formats[i])
                      = Occurrences(rk_formats, rk_formats[i])
       /\ \A j \in 1..Len(rk_sorted) :
              \E i \in 1..Len(rk_formats) : RankedFormats[j] = rk_formats[i]
       /\ rk_result.ok => rk_result.download_url = RankedFormats[1].url[1]

\* A run in which the input order is not the ranked order and the best entry
\* wins a tie on height and total bitrate by its video bitrate.
C1_Witness ==
    /\ rk_pc = "done"
    /\ rk_result.ok
    /\ Len(rk_sorted) >= 3
    /\ RankedFormats[1] # rk_formats[1]
    /\ rk_formats[1].ext = Some("mp4") /\ rk_formats[1].vcodec # Some("none")
    /\ Val0(RankedFormats[1].height) = Val0(RankedFormats[2].height)
    /\ Val0(RankedFormats[1].tbr) = Val0(RankedFormats[2].tbr)
    /\ Val0(RankedFormats[1].vbr) > Val0(RankedFormats[2].vbr)
    /\ Val0(RankedFormats[1].fps) < Val0(RankedFormats[2].fps)

\* The descriptors of the input that pass Test, counted with repetition.
CountWhere(Test(_)) == Cardinality({i \in 1..Len(rk_formats) : Test(rk_formats[i])})

\* The ranked entries are the descriptors that pass Test, each as often as
\* the input holds it, and nothing else; a result counts them.
RanksExactly(Test(_)) ==
    /\ \A i \in 1..Len(rk_formats) :
           Occurrences(RankedFormats, rk_formats[i])
             = IF Test(rk_formats[i]) THEN Occurrences(rk_formats, rk_formats[i]) ELSE 0
    /\ \A j \in 1..Len(rk_sorted) :
           \E i \in 1..Len(rk_formats) : RankedFormats[j] = rk_formats[i]
    /\ Len(rk_sorted) = CountWhere(Test)
    /\ rk_result.ok => rk_result.mp4_formats_found = CountWhere(Test)

\* mp4 with a video codec named in the descriptor.
CodecPresent(f) ==
    f.ext = Some("mp4") /\ Len(f.vcodec) = 1 /\ f.vcodec[1] # "none"

\* mp4 whose vcodec field is not the string 'none'; a missing field passes.
CodecNotNone(f) ==
    f.ext = Some("mp4") /\ (Len(f.vcodec) = 0 \/ f.vcodec[1] # "none")

\* C2 as stated: the ranked entries are exactly the mp4 descriptors whose
\* video codec is present, and mp4_formats_found is their number.
C2_AsStated == rk_pc = "done" => RanksExactly(CodecPresent)

\* C2 as amended: the ranked entries are exactly the mp4 descriptors whose
\* vcodec field is not 'none' (audio-only entries and other containers are
\* excluded, an mp4 descriptor with no vcodec field is included), and
\* mp4_formats_found is their number.
C2_RanksMp4NotAudioOnly == rk_pc = "done" => RanksExactly(CodecNotNone)

\* A result ranked from an input with an audio-only entry, an entry of
\* another container and an mp4 entry with no vcodec field.
C2_Witness ==
    /\ rk_pc = "done"
    /\ rk_result.ok
    /\ \E i \in 1..Len(rk_formats) : rk_formats[i].vcodec = Some("none")
    /\ \E i \in 1..Len(rk_formats) : rk_formats[i].ext # Some("mp4")
    /\ \E i \in 1..Len(rk_formats) :
           /\ rk_formats[i].vcodec = None
           /\ \E j \in 1..Len(rk_sorted) : RankedFormats[j] = rk_formats[i]
    /\ rk_result.mp4_formats_found = 2
    /\ rk_result.total_formats_found = 4

\* The label the claims expect for a descriptor.
LabelOf(f) ==
    CASE Val0(f.height) = 0 -> "Unknown"
      [] Val0(f.height) = 720 -> "720p"
      [] Val0(f.height) = 1080 -> "1080p"
      [] Val0(f.height) = 2160 -> "2160p"

Smaller(a, b) == IF a < b THEN a ELSE b

\* available_qualities lists the ranked entries from position first on, at
\* most 5 of them, in ranked order and with the expected labels.
ListsFrom(first) ==
    LET aq == rk_result.available_qualities
    IN  /\ Len(aq) = Smaller(5, Len(rk_sorted) - (first - 1))
        /\ \A k \in 1..Len(aq) :
               /\ aq[k].quality = LabelOf(RankedFormats[k + first - 1])
               /\ aq[k].url = RankedFormats[k + first - 1].url

\* C4 as stated: available_qualities lists the entries ranked after the best.
C4_AsStated ==
    (rk_pc = "done" /\ rk_result.ok)
    => rk_result.download_url = RankedFormats[1].url[1] /\ ListsFrom(2)

\* C4 as amended: the first ranked entry is the best result, and
\* available_qualities lists the first (at most 5) ranked entries, the best
\* one included as its first element, in ranked order, each labelled
\* '<height>p' when its height is present and non-zero, 'Unknown' otherwise.
C4_TopFiveWithBest ==
    (rk_pc = "done" /\ rk_result.ok)
    => rk_result.download_url = RankedFormats[1].url[1] /\ ListsFrom(1)

\* A result with six ranked entries: the cut drops the last, and the five
\* listed carry a height label and an 'Unknown' label.
C4_Witness ==
    /\ rk_pc = "done"
    /\ rk_result.ok
    /\ Len(rk_sorted) = 6
    /\ Len(rk_result.available_qualities) = 5
    /\ rk_result.available_qualities[1].quality = "1080p"
    /\ rk_result.available_qualities[5].quality = "Unknown"

(***************************************************************************)
(* Helpers of the URL claim: the shapes, written as decompositions of the  *)
(* URL instead of a match of the pattern.                                  *)
(***************************************************************************)
Blank(c) == c = " " \/ c = "\t" \/ c = "\n" \/ c = "\r"

DigitChar(c) == \E d \in 0..9 : c = Digit(d)

\* s from position i to position j, both included.
Part(s, i, j) == SubSeq(s, i, j)

ShapeHeads ==
    {sc \o h \o <<"/">> : sc \in {U_http, U_https}, h \in {L_twitter_com, L_x_com}}

\* The whole of s is scheme://(twitter.com|x.com)/<user>/status/<digits>,
\* <user> one path segment.
ExactShape(s) ==
    \E hd \in ShapeHeads : \E j \in (Len(hd) + 2)..(Len(s) - 8) :
        /\ Part(s, 1, Len(hd)) = hd
        /\ \A k \in (Len(hd) + 1)..(j - 1) : s[k] # "/" /\ s[k] # "\n"
        /\ Part(s, j, j + 7) = L_status
        /\ \A k \in (j + 8)..Len(s) : DigitChar(s[k])

\* s begins with scheme://(twitter.com|x.com)/<text>/status/<digit>, <text>
\* one or more characters other than a newline.
PrefixShape(s) ==
    \E hd \in ShapeHeads : \E j \in (Len(hd) + 2)..(Len(s) - 8) :
        /\ Part(s, 1, Len(hd)) = hd
        /\ \A k \in (Len(hd) + 1)..(j - 1) : s[k] # "\n"
        /\ Part(s, j, j + 7) = L_status
        /\ DigitChar(s[j + 8])

\* The raw URL without the blanks around it and with every twitter.com
\* rewritten: the normalized URL has no blank at either end and no
\* twitter.com left, and the four URLs the claim names come out as it says.
NormalizedAsClaimed ==
    /\ u_norm # << >> => ~Blank(u_norm[1]) /\ ~Blank(u_norm[Len(u_norm)])
    /\ \A i \in 1..Len(u_norm) :
           i + 10 <= Len(u_norm) => Part(u_norm, i, i + 10) # L_twitter_com
    /\ u_raw = U_https \o L_x_com \o P_alice => u_ok /\ u_norm = u_raw
    /\ u_raw = U_https \o L_twitter_com \o P_bob
         => u_ok /\ u_norm = U_https \o L_x_com \o P_bob
    /\ u_raw = U_https \o L_x_com \o P_nouser => ~u_ok
    /\ u_raw = U_https \o H_example \o P_bob => ~u_ok

\* C10 as stated: a URL is accepted only if, trimmed and rewritten, the
\* whole of it has the shape scheme://(twitter.com|x.com)/<user>/status/<digits>;
\* every other URL is rejected.
C10_AsStated ==
    u_pc = "done" => NormalizedAsClaimed /\ (u_ok <=> ExactShape(u_norm))

\* C10 as amended: a URL is accepted if and only if, trimmed and rewritten,
\* it begins with scheme://(twitter.com|x.com)/<text>/status/<digit>, where
\* <text> is one or more characters other than a newline ('/' included) and
\* whatever follows the first digit is not looked at.
C10_AcceptsPrefixShape ==
    u_pc = "done" => NormalizedAsClaimed /\ (u_ok <=> PrefixShape(u_norm))

\* An accepted URL that was trimmed and rewritten and goes on behind the
\* digits.
C10_Witness ==
    /\ u_pc = "done"
    /\ u_ok
    /\ u_raw = <<" ">> \o U_https \o L_twitter_com \o P_photo \o <<" ", "\n">>
    /\ u_norm = U_https \o L_x_com \o P_photo

(***************************************************************************)
(* Helpers of the cache claims.  A step answers a fetch when the response  *)
(* after it is that of POST /video/fetch; every other operation leaves a   *)
(* response of its own.                                                    *)
(***************************************************************************)
\* The URL of the request passes validation.
PassesValidation(r) == ValidNormalized[NormalizedRequest[r.request.url]]

\* The key of the request's URL as the code computes it, from the URL as
\* sent.
KeyAsSent(r) == get_cache_key(r.request.url)

\* The key of the request's URL as C6 describes it, from the normalized URL.
KeyOfNormalized(url) == get_cache_key(NormalizedRequest[url])

\* The cache holds, under key, an entry younger than the ttl at time t.
FreshEntry(cache, key, t) ==
    key \in DOMAIN cache /\ t - cache[key].timestamp < DEFAULT_MAX_AGE

Extracted(r) == r.asked # << >>

\* The answer of yt-dlp on which the operation ended.
LastAnswer(r) == r.asked[Len(r.asked)].answer

\* A non-empty list of descriptors none of which is an mp4 entry with a
\* vcodec other than 'none'.
ZeroQualifying(formats) ==
    /\ Len(formats) >= 1
    /\ \A i \in 1..Len(formats) :
           ~(formats[i].ext = Some("mp4") /\ formats[i].vcodec # Some("none"))

\* C3: a fetch whose extraction ends on a non-empty list of descriptors with
\* zero qualifying entries fails with 'No MP4 video formats available': the
\* response is an error with that text and no result record, and the cache
\* is as it was before the request (no entry is created).
C3_NoMp4FailsWithoutEntry ==
    [][(/\ resp'.op = "fetch"
        /\ Extracted(resp')
        /\ LastAnswer(resp').kind = "info"
        /\ ZeroQualifying(LastAnswer(resp').formats))
       => /\ resp'.status = 500
          /\ resp'.detail = "No MP4 video formats available"
          /\ resp'.data = None
          /\ video_cache' = video_cache]_vars

\* A fetch that retried with cookies, got a list with an audio-only entry
\* and an entry of another container, failed, and left no entry for its URL.
C3_Witness ==
    /\ resp.op = "fetch"
    /\ Len(resp.asked) = 2
    /\ LastAnswer(resp).kind = "info"
    /\ Len(LastAnswer(resp).formats) = 2
    /\ ZeroQualifying(LastAnswer(resp).formats)
    /\ resp.detail = "No MP4 video formats available"
    /\ KeyAsSent(resp) \notin DOMAIN video_cache

\* C5: is_cache_valid answers TRUE exactly when now - timestamp < ttl: TRUE
\* for every age below the ttl, FALSE for an age equal to the ttl and for
\* every larger age.
C5_ValidIffYoungerThanTtl ==
    cv_pc = "done"
    => LET age == now - cv_entry.timestamp
       IN  /\ cv_result <=> age < cv_max_age
           /\ age < cv_max_age => cv_result = TRUE
           /\ age = cv_max_age => cv_result = FALSE
           /\ age > cv_max_age => cv_result = FALSE

\* An entry exactly 3600 seconds old, checked against the default ttl, is
\* not valid.
C5_Witness ==
    /\ cv_pc = "done"
    /\ cv_max_age = 3600
    /\ now - cv_entry.timestamp = 3600
    /\ cv_result = FALSE

\* C6 as stated: the key of a request is that of its normalized URL, so a
\* fetch for a URL that passes validation, made while the cache holds an
\* entry younger than the ttl under the key of the normalized URL of any
\* request with the same normalized URL, is served from the cache: it
\* returns a stored record and does not call yt-dlp.
C6_AsStated ==
    [][(/\ resp'.op = "fetch"
        /\ PassesValidation(resp')
        /\ \E u \in RequestUrls :
               /\ NormalizedRequest[u] = NormalizedRequest[resp'.request.url]
               /\ FreshEntry(video_cache, FetchKey(u), now))
       => /\ ~Extracted(resp')
          /\ resp'.status = 200
          /\ KeyAsSent(resp') = KeyOfNormalized(resp'.request.url)]_vars

\* C7, for a URL that passes validation: with an entry younger than 3600
\* seconds under the URL's key, the fetch returns the record stored in that
\* entry, makes no call to yt-dlp and does not write to the cache; with an
\* entry 3600 seconds old or older, or with no entry, it calls yt-dlp.
C7_HitWithinTtlElseExtract ==
    [][(resp'.op = "fetch" /\ PassesValidation(resp'))
       => LET key == KeyAsSent(resp')
          IN  IF key \in DOMAIN video_cache /\ now - video_cache[key].timestamp < 3600
              THEN /\ resp'.status = 200
                   /\ resp'.data = Some(video_cache[key].data)
                   /\ ~Extracted(resp')
                   /\ video_cache' = video_cache
              ELSE Extracted(resp')]_vars

\* A fetch served from an entry that is 3599 seconds old.
C7_Witness ==
    /\ resp.op = "fetch"
    /\ resp.status = 200
    /\ ~Extracted(resp)
    /\ KeyAsSent(resp) \in DOMAIN video_cache
    /\ now - video_cache[KeyAsSent(resp)].timestamp = 3599
    /\ resp.data = Some(video_cache[KeyAsSent(resp)].data)

\* The fetch ended in a successful extraction.
ExtractedWithSuccess(r) == r.op = "fetch" /\ Extracted(r) /\ r.status = 200

\* C8: a fetch that does not end in a successful extraction leaves the
\* cache exactly as it was (a stale entry found at lookup included); a
\* successful extraction creates or replaces the entry of its key, whole,
\* and touches no other entry; an entry is removed only by POST
\* /cache/clear; no other operation changes the cache.
C8_CacheFrame ==
    [][/\ (resp'.op = "fetch" /\ ~ExtractedWithSuccess(resp'))
          => video_cache' = video_cache
       /\ ExtractedWithSuccess(resp')
          => /\ DOMAIN video_cache' = DOMAIN video_cache \cup {KeyAsSent(resp')}
             /\ video_cache'[KeyAsSent(resp')]
                  = [data |-> resp'.data[1], timestamp |-> now]
             /\ \A k \in DOMAIN video_cache \ {KeyAsSent(resp')} :
                    video_cache'[k] = video_cache[k]
       /\ (\E k \in DOMAIN video_cache : k \notin DOMAIN video_cache')
          => resp'.op = "clear_cache"
       /\ video_cache' # video_cache
          => (ExtractedWithSuccess(resp') \/ resp'.op = "clear_cache")]_vars

\* A fetch that found a stale entry for its URL, called yt-dlp, failed, and
\* left the stale entry in the cache.
C8_Witness ==
    /\ resp.op = "fetch"
    /\ resp.status = 500
    /\ Extracted(resp)
    /\ KeyAsSent(resp) \in DOMAIN video_cache
    /\ now - video_cache[KeyAsSent(resp)].timestamp >= 3600

\* C9 as stated: a request that waited together with another request for
\* the same URL, not cached at that time, performs its own extraction.
C9_AsStated ==
    [][(resp'.op = "fetch" /\ resp'.request.raced /\ PassesValidation(resp'))
       => Extracted(resp')]_vars

\* C9 as amended: requests that wait together for the same URL are handled
\* one after the other, each from start to end (the requests still waiting
\* are untouched).  One that finds an entry younger than the ttl when its
\* turn comes returns the stored record without calling yt-dlp and without
\* writing; one that finds none calls yt-dlp and, when that succeeds,
\* writes the entry of its key, replacing an older one.
C9_RacedServedInTurn ==
    [][(resp'.op = "fetch" /\ resp'.request.raced /\ PassesValidation(resp'))
       => LET key == KeyAsSent(resp')
          IN  /\ resp'.request.id \in DOMAIN pending
              /\ pending' = [i \in DOMAIN pending \ {resp'.request.id} |-> pending[i]]
              /\ IF FreshEntry(video_cache, key, now)
                 THEN /\ ~Extracted(resp')
                      /\ resp'.data = Some(video_cache[key].data)
                      /\ video_cache' = video_cache
                 ELSE /\ Extracted(resp')
                      /\ resp'.status = 200
                         => video_cache'[key] = [data |-> resp'.data[1], timestamp |-> now]
                      /\ resp'.status # 200 => video_cache' = video_cache]_vars

\* Of two requests that waited together for an uncached URL, the second to
\* be handled is served from the entry the first one stored.
C9_Witness ==
    /\ resp.op = "fetch"
    /\ resp.request.raced
    /\ resp.status = 200
    /\ ~Extracted(resp)
    /\ resp.data = Some(video_cache[KeyAsSent(resp)].data)

(***************************************************************************)
(* Helpers of the claims on validation failures.                           *)
(***************************************************************************)
\* The URL fails validation, computed from the URL itself.
FailsValidation(url) == ~is_valid_twitter_url(normalize_twitter_url(url))

INVALID_URL_DETAIL ==
    "Please provide a valid Twitter/X URL (e.g., https://twitter.com/user/status/123...)"

\* C11: a POST /video/fetch or GET /test whose URL fails validation ends in
\* the validation failure of its endpoint, whatever the cache holds; yt-dlp
\* is not called, no record is returned and the cache is left as it was.
C11_InvalidUrlStopsBeforeCacheAndExtraction ==
    [][(resp'.op \in {"fetch", "test"} /\ FailsValidation(resp'.request.url))
       => /\ ~Extracted(resp')
          /\ resp'.data = None
          /\ video_cache' = video_cache
          /\ resp'.op = "fetch" => resp'.detail = "400: " \o INVALID_URL_DETAIL
          /\ resp'.op = "test" => resp'.detail = "Invalid Twitter/X URL"]_vars

\* A fetch for a URL that fails validation, made while the cache holds an
\* entry, answered with the validation message and without extraction.
C11_Witness ==
    /\ resp.op = "fetch"
    /\ FailsValidation(resp.request.url)
    /\ ~Extracted(resp)
    /\ resp.detail = "400: " \o INVALID_URL_DETAIL
    /\ video_cache # << >>

\* C12 as stated: a fetch whose URL fails validation is answered with status
\* 400 and the 'Please provide a valid Twitter/X URL' detail, and an upload
\* of an empty cookie list with status 400 and 'No cookies provided'.
C12_AsStated ==
    /\ (resp.op = "fetch" /\ FailsValidation(resp.request.url))
       => (resp.status = 400 /\ resp.detail = INVALID_URL_DETAIL)
    /\ (resp.op = "upload_cookies" /\ resp.request.cookies = << >>)
       => (resp.status = 400 /\ resp.detail = "No cookies provided")

(***************************************************************************)
(* Helpers of the claims on the cookie transform: cookies.txt is read back *)
(* as a reader of the cookie-jar format reads it, line by line and field   *)
(* by field, and compared with what the claims expect of a record.         *)
(***************************************************************************)
\* s cut at every piece sep.
RECURSIVE Split(_, _)
Split(s, sep) ==
    IF \A i \in 1..Len(s) : s[i] # sep THEN <<s>>
    ELSE LET p == CHOOSE i \in 1..Len(s) : s[i] = sep /\ \A j \in 1..(i - 1) : s[j] # sep
         IN  <<SubSeq(s, 1, p - 1)>> \o Split(SubSeq(s, p + 1, Len(s)), sep)

\* The lines of a text whose lines all end in a line feed.
LinesOf(text) ==
    LET cut == Split(text, "\n") IN SubSeq(cut, 1, Len(cut) - 1)

HasHeader(text) == Len(text) >= Len(HEADER) /\ SubSeq(text, 1, Len(HEADER)) = HEADER

\* The lines of cookies.txt after the header.
CookieLinesWritten == LinesOf(SubSeq(cookies_txt.text, Len(HEADER) + 1, Len(cookies_txt.text)))

FieldsOf(line) == Split(line, "\t")

\* The last call was given a list with the one record c.
ConvertedOne(c) ==
    conv.op = "convert" /\ conv.input.kind = "list" /\ conv.input.cookies = <<c>>

NonEmptyText(v) == v.t = "str" /\ v.s # << >>

HasNameAndValue(c) == c.object /\ NonEmptyText(c.name) /\ NonEmptyText(c.value)

\* The record stops the transform: it is no object, its domain is no
\* string, or its expiry is infinite.
StopsTransform(c) ==
    \/ ~c.object
    \/ c.domain.t \notin {"absent", "str"}
    \/ (IF c.expirationDate.t = "absent" THEN c.expires ELSE c.expirationDate)
         \in {JInf, JStr(<<"i", "n", "f">>)}

\* The fields the claims expect for c, the expiry left out.
ExpectedDomain(c) ==
    LET d == IF c.domain.t = "absent" THEN << >> ELSE c.domain.s
    IN  IF d # << >> /\ d[1] = "." THEN d ELSE <<".">> \o d

ExpectedFlag(c) == IF ExpectedDomain(c)[1] = "." THEN <<"TRUE">> ELSE <<"FALSE">>

ExpectedPath(c) == IF c.path.t = "absent" THEN <<"/">> ELSE c.path.s

ExpectedSecure(c) == IF c.secure = JBool(TRUE) THEN <<"TRUE">> ELSE <<"FALSE">>

NoExpiryGiven(c) == c.expirationDate.t = "absent" /\ c.expires.t = "absent"

\* fields are the 7 fields the claims expect for c.
FieldsAsExpected(fields, c) ==
    /\ Len(fields) = 7
    /\ fields[1] = ExpectedDomain(c)
    /\ fields[2] = ExpectedFlag(c)
    /\ fields[3] = ExpectedPath(c)
    /\ fields[4] = ExpectedSecure(c)
    /\ NoExpiryGiven(c) => fields[5] = <<"0">>
    /\ fields[6] = c.name.s
    /\ fields[7] = c.value.s

\* The two lines of the example of the specification.
ExampleLines ==
    <<<<".", "x", ".", "c", "o", "m", "\t", "TRUE", "\t", "/", "\t", "TRUE", "\t", "0",
        "\t", "a", "\t", "b">>,
      <<".", "t", "w", "i", "t", "t", "e", "r", ".", "c", "o", "m", "\t", "TRUE", "\t",
        "/", "\t", "TRUE", "\t", "0", "\t", "a", "\t", "b">>>>

ExampleHolds ==
    ConvertedOne(CkExample) => (conv.ok /\ CookieLinesWritten = ExampleLines)

\* C13 as stated: every record with a name and a value gets a line of
\* exactly 7 tab-separated fields with the expected domain, flag, path,
\* secure and (none given) expiry 0; the example gives exactly its two lines.
C13_AsStated ==
    /\ \A c \in CookiePool :
           (ConvertedOne(c) /\ HasNameAndValue(c))
           => /\ conv.ok
              /\ Len(CookieLinesWritten) >= 1
              /\ FieldsAsExpected(FieldsOf(CookieLinesWritten[1]), c)
    /\ ExampleHolds

HasSeparator(v) == \E i \in 1..Len(v.s) : v.s[i] \in {"\t", "\n"}

\* C13 as amended: a record gets a line only if it has a name, a value and
\* a non-empty domain; with no domain nothing is written for it.  The line
\* has the expected fields, exactly 7 of them unless the name or the value
\* holds a tab or a line feed, and then the file has a line that has not 7
\* fields.  A record that stops the transform gets no line and the call
\* fails.
C13_LineForNameValueAndDomain ==
    /\ \A c \in CookiePool :
           (ConvertedOne(c) /\ HasNameAndValue(c))
           => IF StopsTransform(c)
              THEN ~conv.ok /\ cookies_txt.text = HEADER
              ELSE IF ~NonEmptyText(c.domain)
              THEN conv.ok /\ cookies_txt.text = HEADER
              ELSE /\ conv.ok
                   /\ Len(CookieLinesWritten) >= 1
                   /\ IF HasSeparator(c.name) \/ HasSeparator(c.value)
                      THEN \E k \in 1..Len(CookieLinesWritten) :
                               Len(FieldsOf(CookieLinesWritten[k])) # 7
                      ELSE FieldsAsExpected(FieldsOf(CookieLinesWritten[1]), c)
    /\ ExampleHolds

\* The example of the specification, converted to exactly its two lines.
C13_Witness ==
    /\ ConvertedOne(CkExample)
    /\ conv.ok
    /\ cookies_txt.text = HEADER \o ExampleLines[1] \o LF \o ExampleLines[2] \o LF

\* The record has no name or no value: the key is missing, null or ''.
MissingNameOrValue(c) == c.object /\ (~NonEmptyText(c.name) \/ ~NonEmptyText(c.value))

\* What the transform writes after the header for the record alone.
LinesAlone(c) ==
    LET text == convert_raw_cookies_to_netscape(RawList(<<c>>), NoFile).file.text
    IN  SubSeq(text, Len(HEADER) + 1, Len(text))

\* The lines of the records of cookies from i on that have a name and a
\* value, each as written for the record alone.
RECURSIVE LinesOfTheOthers(_, _)
LinesOfTheOthers(cookies, i) ==
    IF i > Len(cookies) THEN << >>
    ELSE (IF MissingNameOrValue(cookies[i]) THEN << >> ELSE LinesAlone(cookies[i]))
           \o LinesOfTheOthers(cookies, i + 1)

CountPiece(text, piece) == Cardinality({i \in 1..Len(text) : text[i] = piece})

\* C15: after a successful call the file is what the same call writes when
\* there is no file: the header, once, and the lines of the input of this
\* call; nothing of what the file held before is left.
C15_RegeneratedFromLastInput ==
    (conv.op = "convert" /\ conv.ok)
    => /\ cookies_txt.exists
       /\ HasHeader(cookies_txt.text)
       /\ CountPiece(cookies_txt.text, HEADER[1]) = 1
       /\ cookies_txt.text = convert_raw_cookies_to_netscape(conv.input, NoFile).file.text

\* A successful call with an empty list on a file that held cookie lines:
\* the file is the header alone.
C15_Witness ==
    /\ conv.op = "convert"
    /\ conv.ok
    /\ conv.replaced
    /\ conv.input = RawList(<< >>)
    /\ cookies_txt.text = HEADER

\* The record is written: it has a name, a value and a domain, and does not
\* stop the transform.
Written(c) == HasNameAndValue(c) /\ NonEmptyText(c.domain) /\ ~StopsTransform(c)

\* The domain is x.com or a subdomain of it.
IsXComDomain(d) ==
    LET tail == <<".", "x", ".", "c", "o", "m">>
    IN  Len(d) >= Len(tail) /\ SubSeq(d, Len(d) - Len(tail) + 1, Len(d)) = tail

\* C16 as stated: a written cookie of the x.com domain gets its line and one
\* more line that differs in the domain only, which ends in twitter.com; a
\* written cookie of any other domain gets its line and no other.
C16_AsStated ==
    \A c \in CookiePool :
        (ConvertedOne(c) /\ Written(c) /\ ~HasSeparator(c.name) /\ ~HasSeparator(c.value))
        => IF IsXComDomain(ExpectedDomain(c))
           THEN /\ Len(CookieLinesWritten) = 2
                /\ LET own == FieldsOf(CookieLinesWritten[1])
                       alias == FieldsOf(CookieLinesWritten[2])
                   IN  /\ Len(alias) = 7
                       /\ \A k \in 2..7 : alias[k] = own[k]
                       /\ alias[1] = SubSeq(own[1], 1, Len(own[1]) - 5) \o L_twitter_com
           ELSE Len(CookieLinesWritten) = 1

\* The number a value gives, for the values that give one.
Usable(v) == v.t \in {"num", "half", "str"} /\ IntOfFloat(v).raises = ""

\* The expiry C17 expects: from expirationDate, else from expires, else 0.
ExpectedExpiry(c) ==
    IF Usable(c.expirationDate) THEN SignedToStr(IntOfFloat(c.expirationDate).n)
    ELSE IF Usable(c.expires) THEN SignedToStr(IntOfFloat(c.expires).n)
    ELSE "0"

\* C17 as stated: the expiry of a written record is the integer taken from
\* expirationDate or, when that gives none, from expires, or 0 when neither
\* gives one; a value that is no number does not fail the call or skip the
\* record.
C17_AsStated ==
    \A c \in CookiePool :
        (/\ ConvertedOne(c)
         /\ HasNameAndValue(c)
         /\ NonEmptyText(c.domain)
         /\ ~HasSeparator(c.name) /\ ~HasSeparator(c.value))
        => /\ conv.ok
           /\ Len(CookieLinesWritten) >= 1
           /\ FieldsOf(CookieLinesWritten[1])[5] = <<ExpectedExpiry(c)>>

(***************************************************************************)
(* The file watcher.                                                       *)
(***************************************************************************)
\* The step is the delivery of the event e to the observer's handlers.
Delivers(e) == e.op = "event"

CreateOrModify(e) == e.type \in {"created", "modified"}

\* Nothing the watcher owns changes: no conversion starts, cookies.txt and
\* the watched files stay as they are, and so does the debounce state.
WatcherUntouched == UNCHANGED <<w_pc, cookies_txt, conv, directory, last_processed>>

\* C18 as stated: an event for a directory, an event that is neither a
\* creation nor a modification, or an event for a file whose name is not
\* exactly raw_cookies.json changes nothing.
C18_AsStated ==
    [][(/\ Delivers(seen')
        /\ \/ seen'.is_directory
           \/ ~CreateOrModify(seen')
           \/ basename(seen'.path) # RAW_NAME)
       => WatcherUntouched]_vars

\* C18: the watcher reacts only to create and modify events, not directory
\* events, on a file whose name is raw_cookies.json in any letter case: any
\* other event causes no conversion, no deletion, no change of cookies.txt
\* and no change of the debounce state, and the handler never works on a
\* path of another name.
C18_OnlyCreateModifyOfTheName ==
    [][/\ (/\ Delivers(seen')
           /\ \/ seen'.is_directory
              \/ ~CreateOrModify(seen')
              \/ Lower(basename(seen'.path)) # RAW_NAME)
          => WatcherUntouched
       /\ w_pc'.at \in {"sleeping", "remove"} => Lower(basename(w_pc'.path)) = RAW_NAME
       /\ \A p \in DOMAIN last_processed' : Lower(basename(p)) = RAW_NAME]_vars

\* C18 witness: a directory event for raw_cookies.json was delivered while
\* a convertible file of that name was there and no cooldown ran, and the
\* watcher did not move.
C18_Witness ==
    /\ Delivers(seen)
    /\ seen.is_directory
    /\ CreateOrModify(seen)
    /\ basename(seen.path) = RAW_NAME
    /\ seen.age = Never
    /\ directory[seen.path] = RawList(<<CkExample>>)
    /\ w_pc = Idle
    /\ conv = NoConversion

\* The event is one the handler looks at: a creation or modification of a
\* file named raw_cookies.json (in any letter case).
Qualifying(e) ==
    /\ Delivers(e)
    /\ CreateOrModify(e)
    /\ ~e.is_directory
    /\ Lower(basename(e.path)) = RAW_NAME

\* The event comes less than 2 seconds after the last accepted one of its
\* path.
WithinCooldown(e) == e.age # Never /\ e.age < COOLDOWN

\* The event is dropped.
Dropped == WatcherUntouched

\* The event is accepted: the cooldown of its path starts now and the
\* handler goes on to its wait.
Accepted(e) ==
    /\ e.path \in DOMAIN last_processed'
    /\ last_processed'[e.path] = clock
    /\ \A p \in DOMAIN last_processed' \ {e.path} :
           p \in DOMAIN last_processed /\ last_processed'[p] = last_processed[p]
    /\ w_pc' = At("sleeping", e.path)
    /\ UNCHANGED <<cookies_txt, conv, directory>>

\* The step is the end of the handler's wait.
Wakes(e) == e.op = "convert"

\* The transform is called on what the path holds.
Attempts(file_path) ==
    /\ conv' = Conversion(directory[file_path], conv'.ok, cookies_txt)
    /\ cookies_txt' = convert_raw_cookies_to_netscape(directory[file_path], cookies_txt).file

\* C19 as stated: a qualifying event within the cooldown of its path is
\* dropped, any other qualifying event is accepted, and the handler of an
\* accepted event attempts a conversion.
C19_AsStated ==
    [][/\ Qualifying(seen') =>
              IF WithinCooldown(seen') THEN Dropped ELSE Accepted(seen')
       /\ Wakes(seen') => seen'.attempted /\ Attempts(seen'.path)]_vars

\* C19: a qualifying event less than 2 seconds after the last accepted
\* event of its path is dropped and does not restart the cooldown; any
\* other qualifying event is accepted and restarts it; after its wait the
\* handler of an accepted event attempts a conversion exactly when the file
\* exists and is not empty, and otherwise does nothing.
C19_CooldownThenAttemptIfFileHasContent ==
    [][/\ Qualifying(seen') =>
              IF WithinCooldown(seen') THEN Dropped ELSE Accepted(seen')
       /\ Wakes(seen') =>
              IF directory[seen'.path].kind \notin {"missing", "empty"}
              THEN seen'.attempted /\ Attempts(seen'.path)
              ELSE ~seen'.attempted /\ UNCHANGED <<cookies_txt, conv, directory>>]_vars

\* C19 witness: an event was accepted exactly 2 seconds after the last
\* accepted event of its path.
C19_Witness ==
    /\ Qualifying(seen)
    /\ seen.age = COOLDOWN
    /\ w_pc = At("sleeping", seen.path)
    /\ last_processed[seen.path] = clock

\* The watcher is about to delete the path.
Removing == w_pc.at \in {"remove", "startup_remove"}

\* cookies.txt holds the complete output of the transform for the input.
WriteCompleted(raw) ==
    cookies_txt = convert_raw_cookies_to_netscape(raw, NoFile).file

\* A file of the directory goes away.
Deleted(p) == directory[p] # Missing /\ directory'[p] = Missing

\* C20: the watcher deletes the source file only after the transform on it
\* has returned success and cookies.txt is written completely, in the
\* handler and in the startup check; a failed transform leaves the source
\* file in place and leads to no deletion.
C20_DeletesOnlyAfterSuccess ==
    [][/\ Removing' => conv'.ok /\ conv'.op = "convert"
       /\ Removing => WriteCompleted(conv.input)
       /\ \A p \in WatchPaths :
              (Deleted(p) /\ seen'.op # "write")
              => /\ seen'.op = "remove"
                 /\ Removing /\ w_pc.path = p
                 /\ conv.ok /\ WriteCompleted(conv.input)
       /\ (seen'.op \in {"startup", "convert"} /\ seen'.attempted /\ ~conv'.ok)
          => /\ directory' = directory
             /\ directory[seen'.path] # Missing
             /\ w_pc' = Idle]_vars

\* C20 witness: the handler has deleted raw_cookies.json after converting
\* it, and cookies.txt holds the whole output.
C20_Witness ==
    /\ seen.op = "remove"
    /\ seen.path = Path(RAW_NAME)
    /\ directory[seen.path] = Missing
    /\ conv.ok
    /\ conv.input = RawList(<<CkExample>>)
    /\ WriteCompleted(conv.input)
    /\ seen.path \in DOMAIN last_processed

(***************************************************************************)
(* The calls to yt-dlp of one request.                                     *)
(***************************************************************************)
\* The response is that of a POST /video/fetch or a GET /test.
AnswersFetchOrTest == resp.op \in {"fetch", "test"}

\* C21 as stated: a POST /video/fetch or GET /test calls
\* ydl.extract_info at most once.
C21_AsStated == AnswersFetchOrTest => Len(resp.asked) <= 1

\* C21: a POST /video/fetch or GET /test calls ydl.extract_info at most
\* twice: once without cookies and, only after that call has failed, once
\* more with the cookie file; no call follows a call that succeeded or the
\* second call, whatever its outcome.
C21_AtMostOneRetryWithCookies ==
    AnswersFetchOrTest =>
        /\ Len(resp.asked) <= 2
        /\ Len(resp.asked) >= 1 => ~resp.asked[1].cookies
        /\ Len(resp.asked) = 2 =>
               /\ resp.asked[2].cookies
               /\ resp.asked[1].answer.kind = "error"
               /\ cookies_file

\* C21 witness: a POST /video/fetch failed after its second call, and made
\* no third.
C21_Witness ==
    /\ resp.op = "fetch"
    /\ resp.status = 500
    /\ Len(resp.asked) = 2
    /\ resp.asked[2].answer.kind = "error"

(***************************************************************************)
(* extract_video_info, called once.                                        *)
(***************************************************************************)
\* extract_video_info has returned a result.
ExtractionReturned == ex_pc = "done" /\ ex_out.result.ok

\* extract_video_info has raised.
ExtractionFailed == ex_pc = "done" /\ ~ex_out.result.ok

\* The last call to yt-dlp, which the outcome comes from, had the cookie
\* file.
LastCallHadCookies == ex_out.asked[Len(ex_out.asked)].cookies

\* C22: a result of extract_video_info has is_adult = true and
\* content_rating 'Adult (18+)' exactly when the attempt with the cookie
\* file produced it, and is_adult = false and content_rating 'General
\* Audience' exactly when the attempt without cookies did.
C22_RatingTellsTheAttempt ==
    ExtractionReturned =>
        LET data == ex_out.result.data
        IN  /\ ex_out.asked # << >>
            /\ data.is_adult = LastCallHadCookies
            /\ (data.content_rating = "Adult (18+)") = LastCallHadCookies
            /\ (data.content_rating = "General Audience") = ~LastCallHadCookies

\* C22 witness: the attempt with cookies gave the result, after the
\* attempt without them was refused.
C22_Witness ==
    /\ ExtractionReturned
    /\ Len(ex_out.asked) = 2
    /\ LastCallHadCookies
    /\ ex_out.result.data.is_adult
    /\ ex_out.result.data.content_rating = "Adult (18+)"

(***************************************************************************)
(* The messages of POST /video/fetch for the error texts of yt-dlp.        *)
(***************************************************************************)
ReportsForbidden(text) == Contains(text, "HTTP Error 403") \/ Contains(text, "Forbidden")

ReportsUnauthorized(text) == Contains(text, "HTTP Error 401") \/ Contains(text, "Unauthorized")

ReportsNotFound(text) == Contains(text, "HTTP Error 404") \/ Contains(text, "Not Found")

ReportsTooMany(text) == Contains(text, "HTTP Error 429") \/ Contains(text, "Too Many Requests")

\* The text matches none of the patterns of the handler.
NoKnownPattern(text) == Probes(text) \cap
    {"HTTP Error 404", "Not Found", "HTTP Error 403", "Forbidden", "HTTP Error 429",
     "Too Many Requests", "HTTP Error 401", "Unauthorized", "Unsupported URL",
     "Video unavailable", "Unable to extract", "Could not extract", "network",
     "connection"} = {}

MSG_FORBIDDEN ==
    "Access forbidden. Cannot access private accounts or restricted content. Try uploading cookies."

MSG_UNAUTHORIZED ==
    "Unauthorized access. Upload cookies to access private/restricted content."

MSG_NOT_FOUND ==
    "Tweet not found. The tweet may have been deleted, the account is private, or the tweet doesn't contain a video."

MSG_RATE_LIMIT == "Rate limit exceeded. Please wait a few minutes before trying again."

\* The messages that tell the caller to upload cookies.
CookieHints == {MSG_FORBIDDEN, MSG_UNAUTHORIZED}

\* C23 as stated: a text that reports forbidden or unauthorized gets the
\* hint to upload cookies, a text that reports missing content the
\* not-found message, a text that reports too many requests the rate-limit
\* message, and a text with no known pattern is passed through.
C23_AsStated ==
    ExtractionFailed =>
        LET text == ex_out.result.error
        IN  /\ (ReportsForbidden(text) \/ ReportsUnauthorized(text))
                   => ex_out.detail \in CookieHints
            /\ ReportsNotFound(text) => ex_out.detail = MSG_NOT_FOUND
            /\ ReportsTooMany(text) => ex_out.detail = MSG_RATE_LIMIT
            /\ NoKnownPattern(text) => ex_out.detail = text

\* C23: the patterns are tried in the order not found, forbidden, too many
\* requests, unauthorized, and the first that occurs in the text decides:
\* a text that reports missing content gets the not-found message, whatever
\* else it reports; a text that reports forbidden and no missing content
\* gets the forbidden hint to upload cookies; a text that reports too many
\* requests and neither of these gets the rate-limit message; a text that
\* reports unauthorized and none of these gets the unauthorized hint to
\* upload cookies; a text with no known pattern is passed through.
C23_FirstPatternDecides ==
    ExtractionFailed =>
        LET text == ex_out.result.error
        IN  /\ ReportsNotFound(text) => ex_out.detail = MSG_NOT_FOUND
            /\ (ReportsForbidden(text) /\ ~ReportsNotFound(text))
                   => ex_out.detail = MSG_FORBIDDEN
            /\ (ReportsTooMany(text) /\ ~ReportsNotFound(text) /\ ~ReportsForbidden(text))
                   => ex_out.detail = MSG_RATE_LIMIT
            /\ (/\ ReportsUnauthorized(text)
                /\ ~ReportsNotFound(text) /\ ~ReportsForbidden(text) /\ ~ReportsTooMany(text))
                   => ex_out.detail = MSG_UNAUTHORIZED
            /\ NoKnownPattern(text) => ex_out.detail = text

\* C23 witness: a text that reports forbidden and missing content got the
\* not-found message.
C23_Witness ==
    /\ ExtractionFailed
    /\ ReportsForbidden(ex_out.result.error)
    /\ ReportsNotFound(ex_out.result.error)
    /\ ex_out.detail = MSG_NOT_FOUND

(***************************************************************************)
(* The attempts of extract_video_info.                                     *)
(***************************************************************************)
\* The authentication keywords as C27 lists them.
KEYWORDS_OF_C27 ==
    {"403", "401", "Forbidden", "Unauthorized", "private", "protected", "NSFW",
     "authentication"}

\* What the attempt without cookies gives on yt-dlp's first answer.
FirstOutcome == Attempt(ex_first, FALSE, now)

\* C27: extract_video_info asks yt-dlp once or twice.  The first call is
\* without the cookie file.  A second call, with the cookie file, is made
\* only after the first attempt failed with a text that holds one of the
\* keywords while the cookie file exists, and its outcome is the outcome of
\* extract_video_info: nothing follows its failure.  Without a second call
\* the outcome is that of the first attempt: its result, or its error
\* raised again.
C27_SecondAttemptOnlyWithCookiesAfterAuthError ==
    ex_pc = "done" =>
        /\ Len(ex_out.asked) \in {1, 2}
        /\ ex_out.asked[1] = [cookies |-> FALSE, answer |-> ex_first]
        /\ Len(ex_out.asked) = 2 =>
               /\ ~FirstOutcome.ok
               /\ \E keyword \in KEYWORDS_OF_C27 : Contains(FirstOutcome.error, keyword)
               /\ ex_cookies
               /\ ex_out.asked[2] = [cookies |-> TRUE, answer |-> ex_second]
               /\ ex_second.kind = "error" =>
                      ~ex_out.result.ok /\ ex_out.result.error = ex_second.text
        /\ Len(ex_out.asked) = 1 => ex_out.result = FirstOutcome

\* C27 witness: the first attempt failed on an NSFW tweet, the cookie file
\* was there, the attempt with it was refused, and that error is the
\* outcome.
C27_Witness ==
    /\ ExtractionFailed
    /\ ex_first = AnswerError(ERR_NSFW)
    /\ ex_cookies
    /\ Len(ex_out.asked) = 2
    /\ ex_second = AnswerError(ERR_403)
    /\ ex_out.result.error = ERR_403

(***************************************************************************)
(* The download URL of a result.                                           *)
(***************************************************************************)
\* The descriptor qualifies: an mp4 entry that is not audio only.
Qualifies(fmt) == fmt.ext = Some("mp4") /\ fmt.vcodec # Some("none")

\* The descriptor has a URL to play.
HasUrl(fmt) == fmt.url # None /\ fmt.url[1] # ""

\* Descriptor i of the input is the top-ranked one: it qualifies, none that
\* qualifies ranks above it, and of those that rank as high it comes first.
IsTopRanked(i) ==
    /\ Qualifies(rk_formats[i])
    /\ \A j \in 1..Len(rk_formats) :
           Qualifies(rk_formats[j])
           => /\ RanksAtLeast(rk_formats[i], rk_formats[j])
              /\ j < i => ~RanksAtLeast(rk_formats[j], rk_formats[i])

\* C25: a result has a non-empty download_url, the URL of the top-ranked
\* qualifying descriptor; when that descriptor has no URL the body raises
\* 'Could not extract download URL' and there is no result, even when a
\* descriptor ranked below it has a URL.
C25_UrlOfTopRankedOrFailure ==
    rk_pc = "done" =>
        /\ \A i \in 1..Len(rk_formats) :
               IsTopRanked(i) =>
                   IF HasUrl(rk_formats[i])
                   THEN /\ rk_result.ok
                        /\ rk_result.download_url = rk_formats[i].url[1]
                        /\ rk_result.download_url # ""
                   ELSE /\ ~rk_result.ok
                        /\ rk_result.error = "Could not extract download URL"
        /\ rk_result.ok => \E i \in 1..Len(rk_formats) : IsTopRanked(i)

\* C25 witness: the top-ranked descriptor has no URL, one below it has,
\* and the body raised.
C25_Witness ==
    /\ rk_pc = "done"
    /\ ~rk_result.ok
    /\ rk_result.error = "Could not extract download URL"
    /\ \E i \in 1..Len(rk_formats) : IsTopRanked(i) /\ ~HasUrl(rk_formats[i])
    /\ \E j \in 1..Len(rk_formats) : Qualifies(rk_formats[j]) /\ HasUrl(rk_formats[j])

(***************************************************************************)
(* POST /cookies/add-raw.                                                  *)
(***************************************************************************)
\* POST /cookies/add-raw has answered with success.
AddRawSucceeded ==
    /\ resp.op = "add_raw"
    /\ resp.status = 200
    /\ resp.data # None
    /\ resp.data[1].success

\* The number of records of the list that the transform writes.
WrittenCount(cookies) == Cardinality({i \in 1..Len(cookies) : Written(cookies[i])})

\* C24 as stated: on success cookies_count is the number of records of the
\* input that were written to cookies.txt.
C24_AsStated ==
    AddRawSucceeded =>
        resp.data[1].cookies_count = Some(WrittenCount(conv.input.cookies))

(***************************************************************************)
(* cookies.txt after a transform that failed.                              *)
(***************************************************************************)
\* C28 as stated: a call of the transform that returns False leaves
\* cookies.txt as it was before the call.
C28_AsStated ==
    [][(conv'.op = "convert" /\ ~conv'.ok) => cookies_txt' = cookies_txt]_vars

(***************************************************************************)
(* A reader of cookies.txt while the transform writes it.                  *)
(***************************************************************************)
\* s is a beginning of t.
IsPrefix(s, t) == Len(s) <= Len(t) /\ SubSeq(t, 1, Len(s)) = s

\* What cookies.txt holds after a whole run of the transform on the list.
WholeOutput(cookies) == convert_raw_cookies_to_netscape(RawList(cookies), NoFile).file.text

\* C26: the write of cookies.txt is not atomic for a reader.  A reader that
\* reads while the transform has the file open finds a beginning of the new
\* file, from nothing at all up to all but its last line, and nothing of
\* the old file; a reader that reads while no transform runs finds the
\* whole output of the last run.
C26_ReaderFindsABeginningOfTheNewFile ==
    observed.op = "read" =>
        IF observed.during
        THEN /\ IsPrefix(observed.text, WholeOutput(observed.cookies))
             /\ Len(observed.text) < Len(WholeOutput(observed.cookies))
        ELSE /\ conv.op = "convert"
             /\ observed.text = WholeOutput(conv.input.cookies)

\* C26 witness: the reader read after the truncation of a file that held
\* cookies and before the transform had written all its lines, and found
\* the header and some of the cookie lines of the new file, not all.
C26_Witness ==
    /\ observed.op = "read"
    /\ observed.during
    /\ tw.at = "open"
    /\ Len(tw.old.text) > Len(HEADER)
    /\ Len(observed.text) > Len(HEADER)
    /\ Len(observed.text) < Len(WholeOutput(observed.cookies))

(***************************************************************************)
(* A raw_cookies.json dropped into the watched directory.                  *)
(***************************************************************************)
\* The writer has finished the file.
Finished == writer = "finished"

\* The finished file was converted into cookies.txt and deleted.
Processed ==
    /\ directory[Path(RAW_NAME)] = Missing
    /\ conv.op = "convert" /\ conv.ok /\ conv.input = Complete
    /\ cookies_txt = convert_raw_cookies_to_netscape(Complete, NoFile).file

\* C29 as stated: once the writer has finished raw_cookies.json, the file
\* is eventually converted into cookies.txt and deleted.
C29_AsStated == Finished ~> Processed

(***************************************************************************)
(* Results that needed cookies, after the cookie file was deleted.         *)
(***************************************************************************)
\* POST /video/fetch answered with a result marked adult.
ReturnsAdult ==
    /\ resp.op = "fetch" /\ resp.status = 200
    /\ resp.data[1].data.is_adult

\* The answer came from video_cache: yt-dlp was not asked.
FromCache == resp.asked = << >>

\* C30 as stated: while no cookie file exists, no POST /video/fetch
\* returns a result with is_adult = true.
C30_AsStated == ~cookies_file => ~ReturnsAdult

\* C30: while no cookie file exists, a POST /video/fetch that asks yt-dlp
\* asks it once, without cookies, and never returns is_adult = true; a
\* result with is_adult = true is returned only from video_cache, where
\* an extraction that had the cookie file stored it.
C30_AdultOnlyFromCacheWithoutCookieFile ==
    (~cookies_file /\ resp.op = "fetch") =>
        /\ ~FromCache => /\ Len(resp.asked) = 1
                         /\ ~resp.asked[1].cookies
                         /\ ~ReturnsAdult
        /\ ReturnsAdult =>
              /\ FromCache
              /\ FetchKey(resp.request.url) \in DOMAIN video_cache
              /\ video_cache[FetchKey(resp.request.url)].data = resp.data[1]

\* C30 happens: the cookie file is gone and POST /video/fetch returns a
\* cached result with is_adult = true.
C30_Witness == ~cookies_file /\ ReturnsAdult /\ FromCache

=============================================================================
